---------------------------- MODULE Spec2Model ----------------------------
(***************************************************************************)
(* A model of FAudio's mixing core (src/src/FAudio_internal.c): the       *)
(* buffer-queue state machine FAudio_INTERNAL_DecodeBuffers, the source   *)
(* and submix mixers FAudio_INTERNAL_MixSource / FAudio_INTERNAL_MixSubmix *)
(* and the engine update FAudio_INTERNAL_UpdateEngine.                     *)
(*                                                                         *)
(* One source voice, two submix voices "A" and "B" and the master voice   *)
(* "M" are modelled.  The update is single threaded; pc is the position   *)
(* of the one thread inside FAudio_INTERNAL_UpdateEngine, and the API     *)
(* calls of the application happen between updates (pc = "idle").         *)
(*                                                                         *)
(* Scaling.  TLC's integers are 32 bit wide, so the Q32.32 fixed point    *)
(* format is modelled as Q(WordBits).(FracBits): uint32_t arithmetic is   *)
(* arithmetic modulo 2^WordBits and uint64_t arithmetic is arithmetic     *)
(* modulo 2^(WordBits+FracBits).  Float samples are modelled as exact     *)
(* integers in units of 1/(32768 * FIXED_ONE).                            *)
(***************************************************************************)
EXTENDS Integers, Sequences, FiniteSets, TLC

(***************************************************************************)
(* Bounds of the model.                                                    *)
(***************************************************************************)
\* Fraction bits of the fixed point format (32 in the source).
FracBits == 1
\* Integer bits of the fixed point format and width of uint32_t (32 in the source).
WordBits == 5
\* Frames per output block (voice->src.outputSamples).
OutputSamples == 3
\* Buffers the application submits over a run.
MaxSubmits == 2
\* Control calls (frequency ratio, start, stop) the application makes over a run.
MaxControls == 1
\* Longest log of one API call that is kept.
MaxTrace == 40
\* Saturation value of the per-buffer notification counters.
CountCap == 4
\* Stand-in for FAUDIO_MAX_VOLUME_LEVEL (2^24 in the source), in model units.
MaxVolumeLevel == 200
\* Contributions accumulated into one destination sample (the mixing study).
MixVoices == 3

(***************************************************************************)
(* Program constants.                                                      *)
(***************************************************************************)
\* #define EXTRA_DECODE_PADDING (FAudio_internal.h), used at lines 88, 202.
EXTRA_DECODE_PADDING == 2
\* The infinite loop count, 0xFF at line 133.
FAUDIO_LOOP_INFINITE == 255

FIXED_ONE == 2 ^ FracBits

FIXED_FRACTION_MASK == FIXED_ONE - 1

\* uint32_t wrap-around.
U32(x) == x % (2 ^ WordBits)

\* uint64_t wrap-around.
U64(x) == x % (2 ^ (WordBits + FracBits))

FAudio_min(a, b) == IF a < b THEN a ELSE b

FAudio_clamp(x, lo, hi) == IF x < lo THEN lo ELSE IF x > hi THEN hi ELSE x

\* DOUBLE_TO_FIXED of the rational num/den: (uint64_t) (dbl * FIXED_ONE + 0.5).
DOUBLE_TO_FIXED(num, den) == (2 * num * FIXED_ONE + den) \div (2 * den)

(***************************************************************************)
(* The voices and their configuration.                                     *)
(***************************************************************************)
Submixes == {"A", "B"}

\* audio->submixes, in registration order.
SubmixList == <<"A", "B">>

\* audio->callbacks, in registration order; every callback has both handlers.
EngineCallbacks == <<1, 2>>

\* Frequency ratios the application sets, as numerators over RatioDen.
RatioDen == 2

FreqRatios == {1, 2, 3}

\* Sample rates: the source format, the master and both submixes run at one rate.
SampleRate == 1

\* Channel counts of the master and submix inputs.
OutChannels == 1

\* Sends of the source voice and of each submix: sequences of target voices.
Chain == [src |-> <<"A">>, A |-> <<"B">>, B |-> <<"M">>]

\* The source feeds the master and submix A, which has no sends of its own.
Direct == [src |-> <<"M", "A">>, A |-> <<>>, B |-> <<"M">>]

NoSends == [src |-> <<>>, A |-> <<"B", "M">>, B |-> <<"M">>]

FanOut == [src |-> <<"A", "B">>, A |-> <<"B">>, B |-> <<"M">>]

\* Submix A, fed by the source, has two sends: submix B and the master.
Split == [src |-> <<"A">>, A |-> <<"B", "M">>, B |-> <<"M">>]


\* Gains: voice->volume, voice->channelVolume[ci], sendCoefficients[i][..].
Volume(v) == IF v = "A" THEN 2 ELSE 1

ChannelVolume(v, ci) == IF v = "B" THEN 3 ELSE 1

SendCoefficient(v, i, co, ci) == 1

(***************************************************************************)
(* Buffers the application submits (FAudioBuffer).                         *)
(***************************************************************************)
Plain ==
  [PlayBegin |-> 0, PlayLength |-> 3, LoopBegin |-> 0, LoopLength |-> 0, LoopCount |-> 0, EOS |-> FALSE]

PlainEOS ==
  [PlayBegin |-> 0, PlayLength |-> 2, LoopBegin |-> 0, LoopLength |-> 0, LoopCount |-> 0, EOS |-> TRUE]

\* A play window that does not start at the first frame.
Offset ==
  [PlayBegin |-> 1, PlayLength |-> 2, LoopBegin |-> 0, LoopLength |-> 0, LoopCount |-> 0, EOS |-> FALSE]

\* Three repeats of the loop window [0, 2).
Loop3 ==
  [PlayBegin |-> 0, PlayLength |-> 3, LoopBegin |-> 0, LoopLength |-> 2, LoopCount |-> 3, EOS |-> FALSE]

\* Three repeats of the loop window [1, 3).
Loop3At1 ==
  [PlayBegin |-> 0, PlayLength |-> 4, LoopBegin |-> 1, LoopLength |-> 2, LoopCount |-> 3, EOS |-> FALSE]

\* The whole play window, forever.
Forever ==
  [PlayBegin |-> 0, PlayLength |-> 2, LoopBegin |-> 0, LoopLength |-> 0,
   LoopCount |-> FAUDIO_LOOP_INFINITE, EOS |-> FALSE]

\* The loop window [2, 4), forever.
ForeverAt2 ==
  [PlayBegin |-> 0, PlayLength |-> 4, LoopBegin |-> 2, LoopLength |-> 2,
   LoopCount |-> FAUDIO_LOOP_INFINITE, EOS |-> TRUE]

BufferShapes == {Plain, PlainEOS, Offset, Loop3, Loop3At1, Forever, ForeverAt2}


\* The scenarios of the model: channel count of the source format, whether the
\* source voice has a callback, the frequency ratio it starts with, the sends, the
\* processing stages of the submixes and the buffers the application submits.
Configs ==
  { [nChannels |-> 1, callback |-> TRUE,  freqRatio |-> 2, sends |-> Chain,   stages |-> [A |-> 0, B |-> 1], shapes |-> BufferShapes],
    [nChannels |-> 2, callback |-> TRUE,  freqRatio |-> 2, sends |-> FanOut,  stages |-> [A |-> 0, B |-> 1], shapes |-> BufferShapes],
    [nChannels |-> 1, callback |-> TRUE,  freqRatio |-> 1, sends |-> Chain,   stages |-> [A |-> 1, B |-> 0], shapes |-> BufferShapes],
    [nChannels |-> 2, callback |-> FALSE, freqRatio |-> 3, sends |-> Chain,   stages |-> [A |-> 0, B |-> 0], shapes |-> BufferShapes],
    [nChannels |-> 1, callback |-> TRUE,  freqRatio |-> 3, sends |-> FanOut,  stages |-> [A |-> 0, B |-> 2], shapes |-> {PlainEOS}],
    [nChannels |-> 2, callback |-> TRUE,  freqRatio |-> 1, sends |-> Direct,  stages |-> [A |-> 1, B |-> 0], shapes |-> {Plain, Forever}],
    [nChannels |-> 1, callback |-> TRUE,  freqRatio |-> 2, sends |-> NoSends, stages |-> [A |-> 0, B |-> 1], shapes |-> {PlainEOS, Loop3}],
    [nChannels |-> 1, callback |-> FALSE, freqRatio |-> 2, sends |-> Split,   stages |-> [A |-> 0, B |-> 1], shapes |-> {Plain}] }

\* Frames of backing storage behind pAudioData: the play window ends the payload.
AudioFrames(b) == b.PlayBegin + b.PlayLength

\* The 16 bit sample of buffer id at payload frame idx, channel ch: every sample
\* of the model is distinct and nonzero.
AudioData(id, idx, ch) == (id - 1) * 8 + idx * 2 + ch + 1

\* Values a read outside the backing storage may return.
Garbage == {0, -7}

\* A cell of the decode cache not written by the current decode call.
Stale == -99

NoBuffer == 0


\* An FAudioBuffer slot that holds no buffer.
EmptyBuffer ==
  [PlayBegin |-> 0, PlayLength |-> 0, LoopBegin |-> 0, LoopLength |-> 0, LoopCount |-> 0, EOS |-> FALSE]

\* voice->src.decodeSamples: the largest decode request, padding included.
DecodeSamples ==
  (OutputSamples * DOUBLE_TO_FIXED(3, RatioDen) + 2 * FIXED_FRACTION_MASK) \div FIXED_ONE
    + EXTRA_DECODE_PADDING

\* Cells of voice->src.decodeCache (int16_t, interleaved).
CacheCells(nCh) == DecodeSamples * nCh

\* A block of n zero samples.
ZeroBlock(n) == [i \in 0 .. n - 1 |-> 0]

\* One entry of the log of an API call: a call, a notification or a voice mix.
Ev(name, v, n) == [ev |-> name, v |-> v, n |-> n]

\* The history kept for one buffer: notifications fired, frees, decoder calls, the
\* positions at which a loop rewind happened, whether it was decoded while not
\* the head or after its free, and the FAudioBuffer as it was submitted.
NoNotes == [start |-> 0, loopEnd |-> 0, bufferEnd |-> 0, streamEnd |-> 0, freed |-> 0,
            decodes |-> 0, rewindAt |-> {}, stray |-> FALSE, submittedAs |-> EmptyBuffer]

Bump(n) == FAudio_min(n + 1, CountCap)

VARIABLES
  \* FAudio
  active,              \* audio->active
  masterOutput,        \* audio->master->master.output: 0 is NULL, 1 the caller's buffer
  output,              \* contents of the caller's output buffer
  processingStage,     \* voice->mix.processingStage of each submix
  submixStages,        \* audio->submixStages
  inputCache,          \* voice->mix.inputCache of each submix
  sends,               \* voice->sends of the source and the submixes
  \* FAudioSourceVoice
  srcActive,           \* voice->src.active
  callback,            \* voice->src.callback != NULL (with every handler set)
  nChannels,           \* voice->src.format.nChannels
  freqRatio,           \* voice->src.freqRatio, numerator over RatioDen
  resampleFreqRatio,   \* voice->src.resampleFreqRatio
  resampleStep,        \* voice->src.resampleStep
  resampleOffset,      \* voice->src.resampleOffset & FIXED_FRACTION_MASK
  heap,                \* the FAudioBufferEntry objects, by buffer id
  bufferList,          \* voice->src.bufferList: ids, head first
  curBufferOffset,     \* voice->src.curBufferOffset
  curBufferOffsetDec,  \* voice->src.curBufferOffsetDec
  decodeCache,         \* voice->src.decodeCache
  outputResampleCache, \* voice->src.outputResampleCache
  \* the update thread
  pc,                  \* position inside FAudio_INTERNAL_UpdateEngine
  mixed,               \* MixSource: mixed
  resampleCache,       \* MixSource: resampleCache - voice->src.outputResampleCache
  toDecode,            \* DecodeBuffers: *toDecode
  decoded,             \* DecodeBuffers: decoded
  resetOffset,         \* DecodeBuffers: resetOffset
  buffer,              \* DecodeBuffers: buffer (a buffer id, or NoBuffer for NULL)
  stage,               \* UpdateEngine: i of the stage loop
  submix,              \* UpdateEngine: index of submix in audio->submixes
  \* history
  trace,               \* log of the current (or last) API call: of an update, the call,
                       \* its notifications, its voice mixes, decoder calls and frees
  notes,               \* per buffer: notifications fired, frees, decoder calls
  submitted,           \* buffers submitted so far
  shapes,              \* the buffers the application submits in this scenario
  controls,            \* control calls made so far
  frames,              \* <<id, payload frame>> of every frame decoded by the current decode call
  given,               \* per voice: what was distributed into it during this update
  consumed,            \* per submix: its inputCache when it was mixed in this update
  \* the mixing study: one destination sample and the contributions sent to it
  mixTerms,            \* the weighted contributions, by sender
  mixPending,          \* the senders whose contribution is still to be accumulated
  mixStream,           \* stream[j * oChan + co], the destination sample
  mixExact,            \* the exact sum of the contributions accumulated so far
  \* the codec study: FAudio_INTERNAL_DecodeFFMPEG on one WMA buffer
  ffmpeg,              \* voice->src.ffmpeg: the FAudioFFmpeg of the voice
  wBitsPerSample,      \* voice->src.format->wBitsPerSample
  ffCall,              \* the decoder call in progress (or the last one): its arguments,
                       \* done, the decodeCache it fills, whether it had to reseek or
                       \* followed a reset, whether the codec failed (in this call, in
                       \* any call so far) or ran out of data
  \* the MSADPCM study: one block decoded by the mono and the stereo block decoder
  adpcm                \* the block under study and what each decoder made of it

progVars ==
  <<active, masterOutput, processingStage, submixStages, inputCache, sends, srcActive,
    callback, nChannels, freqRatio, resampleFreqRatio, resampleStep, resampleOffset,
    heap, bufferList, curBufferOffset, curBufferOffsetDec, decodeCache,
    outputResampleCache>>

localVars == <<mixed, resampleCache, toDecode, decoded, resetOffset, buffer, stage, submix>>

histVars == <<notes, submitted, shapes, controls, frames, given, consumed>>

mixVars == <<mixTerms, mixPending, mixStream, mixExact>>

ffVars == <<ffmpeg, wBitsPerSample, ffCall>>

vars == <<progVars, output, pc, localVars, trace, histVars, mixVars, ffVars, adpcm>>

(***************************************************************************)
(* The WMA buffer and the decoder state of the codec study.                *)
(***************************************************************************)
\* Decoded frames of each encoded packet of the buffer, in stream order.
FrameSamples == <<2, 1, 2>>

\* bufferWMA->PacketCount.
PacketCount == Len(FrameSamples)

\* The largest av_frame->nb_samples of the stream.
MaxFrameSamples ==
  CHOOSE n \in {FrameSamples[p] : p \in DOMAIN FrameSamples} :
    \A p \in DOMAIN FrameSamples : FrameSamples[p] <= n

\* voice->src.format->nBlockAlign: bytes of one encoded packet.
BlockAlign == 2

\* buffer->AudioBytes.
AudioBytes == PacketCount * BlockAlign

\* sizeof(float).
SizeofFloat == 4

\* The sample widths an application declares in the format.
BitsPerSample == {16, 32}

\* Decoder calls of one run.
MaxCalls == 3

\* The largest `samples` of a decoder call.
MaxRequest == 3

\* The largest play position a decoder call finds in voice->src.curBufferOffset.
MaxPosition == 6

\* Results of the codec in one FAudio_INTERNAL_FillConvertCache: a frame (or the
\* end of the data), a failing avcodec_send_packet, a failing
\* avcodec_receive_frame before or after the packet was sent.
CodecOutcomes == {"ok", "sendError", "receiveError", "receiveErrorAfterSend"}

\* The FAudioFFmpeg after FAudio_FFMPEG_init (FAudio_zero, line 194).
NoFFmpeg ==
  [encOffset |-> 0, decOffset |-> 0, convertCapacity |-> 0, convertSamples |-> 0,
   convertOffset |-> 0, convertCache |-> [i \in 0 .. MaxFrameSamples * 2 - 1 |-> Stale]]

\* No decoder call was made yet.
NoCall ==
  [pc |-> "idle", calls |-> 0, samples |-> 0, done |-> 0, curBufferOffset |-> 0,
   decodeCache |-> [i \in 0 .. MaxRequest * 2 - 1 |-> Stale], failed |-> FALSE,
   reseek |-> FALSE, decOffset |-> 0, reset |-> FALSE, afterReset |-> FALSE,
   drained |-> FALSE, faulted |-> FALSE]

\* Bytes of nibbles in a mono MSADPCM block: align + 15 of the code (line 793),
\* scaled down.
NibbleBytes == 2

\* No MSADPCM block is under study.
NoBlock ==
  [input |-> [predictor |-> 0, delta |-> 0, sample1 |-> 0, sample2 |-> 0, nibbles |-> <<>>],
   side |-> 0, mono |-> <<>>, stereo |-> <<>>]

\* Count of distinct processing stages (the registration code is not part of the
\* sources; the specification defines submixStages this way).
StageCount(stages) == Cardinality({stages[m] : m \in Submixes})

\* The engine, its voices and the update thread after construction, in scenario c.
InitEngine(c) ==
  /\ nChannels = c.nChannels
  /\ callback = c.callback
  /\ freqRatio = c.freqRatio
  /\ sends = c.sends
  /\ processingStage = c.stages
  /\ shapes = c.shapes
  /\ active = TRUE
  /\ masterOutput = 0
  /\ output = ZeroBlock(OutputSamples * OutChannels)
  /\ submixStages = StageCount(processingStage)
  /\ inputCache = [m \in Submixes |-> ZeroBlock(OutputSamples * OutChannels)]
  /\ srcActive = TRUE
  /\ resampleFreqRatio = 0
  /\ resampleStep = 0
  /\ resampleOffset = 0
  /\ heap = [id \in 1 .. MaxSubmits |-> EmptyBuffer]
  /\ bufferList = <<>>
  /\ curBufferOffset = 0
  /\ curBufferOffsetDec = 0
  /\ decodeCache = [i \in 0 .. CacheCells(nChannels) - 1 |-> Stale]
  /\ outputResampleCache = ZeroBlock(OutputSamples * nChannels)
  /\ pc = "idle"
  /\ mixed = 0
  /\ resampleCache = 0
  /\ toDecode = 0
  /\ decoded = 0
  /\ resetOffset = 0
  /\ buffer = NoBuffer
  /\ stage = 0
  /\ submix = 1
  /\ trace = <<>>
  /\ notes = [id \in 1 .. MaxSubmits |-> NoNotes]
  /\ submitted = 0
  /\ controls = 0
  /\ frames = <<>>
  /\ given = [m \in Submixes \cup {"M"} |-> ZeroBlock(OutputSamples * OutChannels)]
  /\ consumed = [m \in Submixes |-> <<>>]

Init ==
  /\ \E c \in Configs : InitEngine(c)
  /\ mixTerms = <<>>
  /\ mixPending = {}
  /\ mixStream = 0
  /\ mixExact = 0
  /\ ffmpeg = NoFFmpeg
  /\ wBitsPerSample = 16
  /\ ffCall = NoCall
  /\ adpcm = NoBlock

(***************************************************************************)
(* API calls of the application, between updates.                          *)
(***************************************************************************)
\* FAudioSourceVoice_SubmitSourceBuffer: append to the queue; a buffer that becomes
\* the head starts at its play-window start.
SubmitSourceBuffer(shape) ==
  /\ pc = "idle"
  /\ shape \in shapes
  /\ submitted < MaxSubmits
  /\ submitted' = submitted + 1
  /\ heap' = [heap EXCEPT ![submitted + 1] = shape]
  /\ bufferList' = Append(bufferList, submitted + 1)
  /\ curBufferOffset' = IF bufferList = <<>> THEN shape.PlayBegin ELSE curBufferOffset
  /\ trace' = <<>>
  /\ notes' = [notes EXCEPT ![submitted + 1].submittedAs = shape]
  /\ UNCHANGED <<active, masterOutput, output, processingStage, submixStages, inputCache,
                 sends, srcActive, callback, nChannels, freqRatio, resampleFreqRatio,
                 resampleStep, resampleOffset, curBufferOffsetDec, decodeCache,
                 outputResampleCache, pc, localVars, shapes, controls, frames,
                 given, consumed>>
  /\ UNCHANGED <<mixVars, ffVars, adpcm>>

\* FAudioSourceVoice_SetFrequencyRatio.
SetFrequencyRatio(r) ==
  /\ pc = "idle"
  /\ controls < MaxControls
  /\ controls' = controls + 1
  /\ r # freqRatio
  /\ freqRatio' = r
  /\ trace' = <<>>
  /\ UNCHANGED <<active, masterOutput, output, processingStage, submixStages, inputCache,
                 sends, srcActive, callback, nChannels, resampleFreqRatio, resampleStep,
                 resampleOffset, heap, bufferList, curBufferOffset, curBufferOffsetDec,
                 decodeCache, outputResampleCache, pc, localVars, notes, submitted, shapes, frames, given, consumed>>
  /\ UNCHANGED <<mixVars, ffVars, adpcm>>

\* FAudio_StartEngine / FAudio_StopEngine.
SetEngineActive(a) ==
  /\ pc = "idle"
  /\ controls < MaxControls
  /\ controls' = controls + 1
  /\ a # active
  /\ active' = a
  /\ trace' = <<>>
  /\ UNCHANGED <<masterOutput, output, processingStage, submixStages, inputCache, sends,
                 srcActive, callback, nChannels, freqRatio, resampleFreqRatio,
                 resampleStep, resampleOffset, heap, bufferList, curBufferOffset,
                 curBufferOffsetDec, decodeCache, outputResampleCache, pc, localVars,
                 notes, submitted, shapes, frames, given, consumed>>
  /\ UNCHANGED <<mixVars, ffVars, adpcm>>

\* FAudioSourceVoice_Start / FAudioSourceVoice_Stop.
SetVoiceActive(a) ==
  /\ pc = "idle"
  /\ controls < MaxControls
  /\ controls' = controls + 1
  /\ a # srcActive
  /\ srcActive' = a
  /\ trace' = <<>>
  /\ UNCHANGED <<active, masterOutput, output, processingStage, submixStages, inputCache,
                 sends, callback, nChannels, freqRatio, resampleFreqRatio, resampleStep,
                 resampleOffset, heap, bufferList, curBufferOffset, curBufferOffsetDec,
                 decodeCache, outputResampleCache, pc, localVars, notes, submitted, shapes, frames, given, consumed>>
  /\ UNCHANGED <<mixVars, ffVars, adpcm>>

(***************************************************************************)
(* Helpers of the update.                                                  *)
(***************************************************************************)
\* The log with evs appended, cut at MaxTrace.
Logged(evs) ==
  LET t == trace \o evs IN IF Len(t) <= MaxTrace THEN t ELSE SubSeq(t, 1, MaxTrace)

\* The events among evs whose condition holds: evs is a sequence of <<condition, event>>.
RECURSIVE Fired(_)
Fired(evs) ==
  IF evs = <<>> THEN <<>>
  ELSE (IF Head(evs)[1] THEN <<Head(evs)[2]>> ELSE <<>>) \o Fired(Tail(evs))

\* The input sample rate of a send target (out->master.inputSampleRate or
\* out->mix.inputSampleRate).
InputSampleRate(v) == SampleRate

\* A faulty variant of Accumulate: the sum without the clamp.
AccumulateUnclamped(dest, x) == dest + x

\* FAUDIO_MAX_VOLUME_LEVEL clamp of one accumulation: stream = clamp(stream + x).
Accumulate(dest, x) == FAudio_clamp(dest + x, -MaxVolumeLevel, MaxVolumeLevel)

\* The innermost mix loop, over the source channels ci = from .. n-1, of one
\* destination sample: terms[ci] is the weighted contribution of channel ci.
RECURSIVE AccumulateChannels(_, _, _, _)
AccumulateChannels(acc, terms, from, n) ==
  IF from >= n THEN acc
  ELSE AccumulateChannels(Accumulate(acc, terms[from]), terms, from + 1, n)

(***************************************************************************)
(* FAudio_INTERNAL_UpdateEngine, entry (lines 534-563).                    *)
(***************************************************************************)
\* The OnProcessingPassStart loop, in list order.
PassStartEvents == [k \in 1 .. Len(EngineCallbacks) |-> Ev("OnProcessingPassStart", "M", EngineCallbacks[k])]

\* A faulty variant of PassEndEvents: the list walked from its tail.
PassEndEventsReversed ==
  [k \in 1 .. Len(EngineCallbacks) |->
     Ev("OnProcessingPassEnd", "M", EngineCallbacks[Len(EngineCallbacks) + 1 - k])]

\* The OnProcessingPassEnd loop, in list order.
PassEndEvents == [k \in 1 .. Len(EngineCallbacks) |-> Ev("OnProcessingPassEnd", "M", EngineCallbacks[k])]

\* A faulty variant of UpdateEngineInactive: the active test placed after the
\* master output is bound (line 560).
UpdateEngineInactiveRebinding ==
  /\ pc = "idle"
  /\ ~active
  /\ trace' = <<Ev("UpdateEngine", "M", 0)>>
  /\ output' = ZeroBlock(OutputSamples * OutChannels)
  /\ masterOutput' = 1 - masterOutput
  /\ UNCHANGED <<active, processingStage, submixStages, inputCache, sends, srcActive,
                 callback, nChannels, freqRatio, resampleFreqRatio, resampleStep,
                 resampleOffset, heap, bufferList, curBufferOffset, curBufferOffsetDec,
                 decodeCache, outputResampleCache, pc, localVars, histVars, mixVars, ffVars, adpcm>>

\* if (!audio->active) return;  The caller's pre-cleared buffer comes back as it was.
UpdateEngineInactive ==
  /\ pc = "idle"
  /\ ~active
  /\ trace' = <<Ev("UpdateEngine", "M", 0)>>
  /\ output' = ZeroBlock(OutputSamples * OutChannels)
  /\ UNCHANGED <<progVars, pc, localVars, histVars>>
  /\ UNCHANGED <<mixVars, ffVars, adpcm>>

\* Pass-start callbacks, then the master output is bound to the caller's buffer.
UpdateEngineBegin ==
  /\ pc = "idle"
  /\ active
  /\ trace' = <<Ev("UpdateEngine", "M", 0)>> \o PassStartEvents
  /\ masterOutput' = 1
  /\ output' = ZeroBlock(OutputSamples * OutChannels)
  /\ given' = [m \in Submixes \cup {"M"} |-> ZeroBlock(OutputSamples * OutChannels)]
  /\ consumed' = [m \in Submixes |-> <<>>]
  /\ pc' = "sources"
  /\ UNCHANGED <<active, processingStage, submixStages, inputCache, sends, srcActive,
                 callback, nChannels, freqRatio, resampleFreqRatio, resampleStep,
                 resampleOffset, heap, bufferList, curBufferOffset, curBufferOffsetDec,
                 decodeCache, outputResampleCache, localVars, notes, submitted, shapes, controls,
                 frames>>
  /\ UNCHANGED <<mixVars, ffVars, adpcm>>

\* The source loop meets a voice that is not active.
SkipSource ==
  /\ pc = "sources"
  /\ ~srcActive
  /\ pc' = "submixes"
  /\ stage' = 0
  /\ submix' = 1
  /\ UNCHANGED <<progVars, output, mixed, resampleCache, toDecode, decoded, resetOffset,
                 buffer, trace, histVars>>
  /\ UNCHANGED <<mixVars, ffVars, adpcm>>

(***************************************************************************)
(* FAudio_INTERNAL_MixSource, entry (lines 292-326).                       *)
(***************************************************************************)
\* The voice whose rate the step is computed against (lines 295-300).
StepTarget == IF Len(sends.src) = 0 THEN "M" ELSE sends.src[1]

\* A faulty variant of ComputeStep: a step of 1.0 whatever the ratio.
ComputeStepUnit == FIXED_ONE

\* stepd -> resampleStep (lines 301-306).
ComputeStep == DOUBLE_TO_FIXED(freqRatio * SampleRate, RatioDen * InputSampleRate(StepTarget))

MixSourceBegin ==
  /\ pc = "sources"
  /\ srcActive
  /\ IF resampleFreqRatio # freqRatio
       THEN /\ resampleStep' = ComputeStep
            /\ resampleFreqRatio' = freqRatio
       ELSE UNCHANGED <<resampleStep, resampleFreqRatio>>
  /\ IF bufferList = <<>>
       THEN /\ trace' = Logged(<<Ev("MixSource", "S", 0)>>
                                 \o Fired(<<<<callback, Ev("OnVoiceProcessingPassStart", "S", 0)>>>>)
                                 \o <<Ev("MixSourceReturn", "S", 0)>>)
            /\ pc' = "submixes"
            /\ stage' = 0
            /\ submix' = 1
            /\ UNCHANGED <<mixed, resampleCache>>
       ELSE /\ trace' = Logged(<<Ev("MixSource", "S", 0)>>
                                 \o Fired(<<<<callback, Ev("OnVoiceProcessingPassStart", "S", 0)>>>>))
            /\ mixed' = 0
            /\ resampleCache' = 0
            /\ pc' = "mixLoop"
            /\ UNCHANGED <<stage, submix>>
  /\ UNCHANGED <<active, masterOutput, output, processingStage, submixStages, inputCache,
                 sends, srcActive, callback, nChannels, freqRatio, resampleOffset, heap,
                 bufferList, curBufferOffset, curBufferOffsetDec, decodeCache,
                 outputResampleCache, toDecode, decoded, resetOffset, buffer, histVars>>
  /\ UNCHANGED <<mixVars, ffVars, adpcm>>

(***************************************************************************)
(* The mix loop of MixSource calls DecodeBuffers (lines 328-339, 84-91).   *)
(***************************************************************************)
\* Lines 332-336: the source frames needed for the rest of the block.
DecodeRequest ==
  U64(U64((OutputSamples - mixed) * resampleStep) + curBufferOffsetDec + FIXED_FRACTION_MASK)
    \div FIXED_ONE

MixLoopDecode ==
  /\ pc = "mixLoop"
  /\ mixed < OutputSamples /\ bufferList # <<>>
  /\ buffer' = Head(bufferList)
  /\ toDecode' = U64(DecodeRequest + EXTRA_DECODE_PADDING)
  /\ decoded' = 0
  /\ resetOffset' = 0
  /\ pc' = "decode"
  /\ UNCHANGED <<active, masterOutput, output, processingStage, submixStages, inputCache,
                 sends, srcActive, callback, nChannels, freqRatio, resampleFreqRatio,
                 resampleStep, resampleOffset, heap, bufferList, curBufferOffset,
                 curBufferOffsetDec, decodeCache, frames, outputResampleCache, mixed, resampleCache, stage,
                 submix, trace, notes, submitted, shapes, controls, given, consumed>>
  /\ UNCHANGED <<mixVars, ffVars, adpcm>>

(***************************************************************************)
(* FAudio_INTERNAL_DecodeBuffers: one iteration of its loop (lines 93-199). *)
(***************************************************************************)
\* decoding = *toDecode - decoded (line 95).
Decoding == U32(toDecode - decoded)

\* Start-of-buffer test (line 98).
StartOfBuffer == curBufferOffset = heap[buffer].PlayBegin

\* end (lines 109-111).
IterationEnd(b) ==
  IF b.LoopCount > 0 /\ b.LoopLength > 0 THEN b.LoopLength ELSE b.PlayLength

\* endRead (lines 112-115).
EndRead == FAudio_min(U32(IterationEnd(heap[buffer]) - curBufferOffset), Decoding)

\* FAudio_INTERNAL_DecodeMonoPCM16 / FAudio_INTERNAL_DecodeStereoPCM16: the cells
\* copied for `samples` frames at curOffset; g is what a read outside the backing
\* storage returns.
DecodePCM16(id, curOffset, samples, g) ==
  LET first == U32(U32(heap[id].PlayBegin + curOffset) * nChannels)
  IN [k \in 0 .. samples * nChannels - 1 |->
        IF first + k < AudioFrames(heap[id]) * nChannels
          THEN AudioData(id, (first + k) \div nChannels, (first + k) % nChannels)
          ELSE g]

\* The payload frames a decoder call reads, for the history.
FrameLog(id, curOffset, samples) ==
  [k \in 1 .. samples |-> <<id, U32(heap[id].PlayBegin + curOffset) + k - 1>>]

\* cache with the n cells from off on replaced by vals[0 .. n-1].
WriteCells(cache, off, vals, n) ==
  [i \in DOMAIN cache |-> IF off <= i /\ i < off + n THEN vals[i - off] ELSE cache[i]]

\* FAudio_zero on n cells of the cache from off on.
ZeroCells(cache, off, n) ==
  [i \in DOMAIN cache |-> IF off <= i /\ i < off + n THEN 0 ELSE cache[i]]

\* First cell of the zero fill (lines 187-190).
ZeroFillStart(dec, endRead) == dec * nChannels + endRead

\* Cells of the zero fill: (decoding - endRead) * sizeof(int16_t) bytes (line 191).
ZeroFillCells(decoding, endRead) == decoding - endRead

\* A faulty variant of NextLoopCount: the decrement without the 0xFF test.
NextLoopCountAlways(c) == c - 1

\* LoopCount after a rewind (lines 133-136).
NextLoopCount(c) == IF c < FAUDIO_LOOP_INFINITE THEN c - 1 ELSE c

\* voice->src.bufferList after the head is detached (line 174).
Detach(list) == Tail(list)

\* A faulty variant of NextBuffer: buffer is left pointing at the freed entry.
KeepBuffer(list) == buffer

\* buffer after the head is detached (lines 176-184).
NextBuffer(list) == IF list # <<>> THEN Head(list) ELSE NoBuffer

\* A faulty variant of EndOfBufferEvents: OnStreamEnd is signalled before
\* OnBufferEnd, and at every end, flagged or not.
EndOfBufferEventsStreamFirst(loops, finals) ==
  << <<loops /\ callback, Ev("OnLoopEnd", "S", buffer)>>,
     <<finals /\ callback, Ev("OnStreamEnd", "S", buffer)>>,
     <<finals /\ callback, Ev("OnBufferEnd", "S", buffer)>>,
     <<finals, Ev("free", "S", buffer)>> >>

\* The notifications of the end-of-buffer behaviour and the free, each with the
\* condition it is made under, in the order of the code (lines 127-175).
EndOfBufferEvents(loops, finals) ==
  << <<loops /\ callback, Ev("OnLoopEnd", "S", buffer)>>,
     <<finals /\ callback, Ev("OnBufferEnd", "S", buffer)>>,
     <<finals /\ callback /\ heap[buffer].EOS, Ev("OnStreamEnd", "S", buffer)>>,
     <<finals, Ev("free", "S", buffer)>> >>

DecodeIter ==
  /\ pc = "decode"
  /\ decoded < toDecode /\ buffer # NoBuffer
  /\ \E g \in Garbage :
       LET b == heap[buffer]
           decoding == Decoding
           endRead == EndRead
           loops == endRead < decoding /\ b.LoopCount > 0
           finals == endRead < decoding /\ ~(b.LoopCount > 0)
           rest == IF finals THEN Detach(bufferList) ELSE bufferList
           cache1 == WriteCells(decodeCache, decoded * nChannels,
                                DecodePCM16(buffer, curBufferOffset, endRead, g),
                                endRead * nChannels)
           start == StartOfBuffer /\ callback
       IN /\ decodeCache' =
               IF finals /\ rest = <<>>
                 THEN ZeroCells(cache1, ZeroFillStart(decoded, endRead),
                                ZeroFillCells(decoding, endRead))
                 ELSE cache1
          /\ frames' = frames \o FrameLog(buffer, curBufferOffset, endRead)
          /\ resetOffset' = IF endRead < decoding THEN U32(resetOffset + endRead) ELSE resetOffset
          /\ curBufferOffset' =
               IF loops THEN b.LoopBegin
               ELSE IF finals /\ rest # <<>> THEN heap[Head(rest)].PlayBegin
               ELSE curBufferOffset
          /\ curBufferOffsetDec' = IF finals /\ b.EOS THEN 0 ELSE curBufferOffsetDec
          /\ heap' = IF loops THEN [heap EXCEPT ![buffer].LoopCount = NextLoopCount(@)] ELSE heap
          /\ bufferList' = rest
          /\ buffer' = IF finals THEN NextBuffer(rest) ELSE buffer
          /\ decoded' = U32(decoded + endRead)
          /\ notes' = [notes EXCEPT ![buffer] =
               [start |-> IF start THEN Bump(@.start) ELSE @.start,
                loopEnd |-> IF loops /\ callback THEN Bump(@.loopEnd) ELSE @.loopEnd,
                bufferEnd |-> IF finals /\ callback THEN Bump(@.bufferEnd) ELSE @.bufferEnd,
                streamEnd |-> IF finals /\ callback /\ b.EOS THEN Bump(@.streamEnd) ELSE @.streamEnd,
                freed |-> IF finals THEN Bump(@.freed) ELSE @.freed,
                decodes |-> Bump(@.decodes),
                rewindAt |-> IF loops THEN @.rewindAt \cup {U32(curBufferOffset + endRead)}
                             ELSE @.rewindAt,
                stray |-> @.stray \/ @.freed > 0 \/ bufferList = <<>>
                            \/ buffer # Head(bufferList),
                submittedAs |-> @.submittedAs]]
          /\ trace' = Logged(Fired(<<
               <<start, Ev("OnBufferStart", "S", buffer)>>,
               <<TRUE, Ev("decode", "S", buffer)>> >> \o EndOfBufferEvents(loops, finals)))
  /\ UNCHANGED <<active, masterOutput, output, processingStage, submixStages, inputCache,
                 sends, srcActive, callback, nChannels, freqRatio, resampleFreqRatio,
                 resampleStep, resampleOffset, outputResampleCache, pc, mixed,
                 resampleCache, toDecode, stage, submix, submitted, shapes, controls, given,
                 consumed>>
  /\ UNCHANGED <<mixVars, ffVars, adpcm>>

(***************************************************************************)
(* DecodeBuffers returns; MixSource resamples and moves the play position *)
(* (lines 201-204, 341-385).                                               *)
(***************************************************************************)
\* *toDecode = decoded - EXTRA_DECODE_PADDING (line 202), a uint32_t difference.
DecodedCount == U32(decoded - EXTRA_DECODE_PADDING)

\* A faulty variant of ToResample: without the FAudio_min of line 348.
ToResampleUncapped ==
  U64(U64(DecodedCount * FIXED_ONE) - curBufferOffsetDec) \div resampleStep

\* toResample (lines 342-348).
ToResample ==
  FAudio_min(U64(U64(DecodedCount * FIXED_ONE) - curBufferOffsetDec) \div resampleStep,
             U32(OutputSamples - mixed))

\* A cell of the decode cache, or what lies behind it.
CacheAt(i) == IF i \in DOMAIN decodeCache THEN decodeCache[i] ELSE Stale

\* The read position (in frames) and phase of FAudio_INTERNAL_ResamplePCM after i
\* output frames, starting at <<pos, cur>> (lines 231-245, 259-272).
RECURSIVE ResamplePhase(_, _, _)
ResamplePhase(i, pos, cur) ==
  IF i = 0 THEN <<pos, cur>>
  ELSE ResamplePhase(i - 1, pos + ((cur + resampleStep) \div FIXED_ONE),
                     (cur + resampleStep) % FIXED_ONE)

\* The lerp of lines 220-229 / 253-257 for channel c, in units of 1/(32768*FIXED_ONE).
Lerp(pos, cur, c) ==
  CacheAt(pos * nChannels + c) * FIXED_ONE
    + (CacheAt((pos + 1) * nChannels + c) - CacheAt(pos * nChannels + c)) * cur

\* FAudio_INTERNAL_ResamplePCM writing n frames at resampleCache (lines 206-275).
ResamplePCM(cache, at, n) ==
  [k \in DOMAIN cache |->
     IF at <= k /\ k < at + n * nChannels
       THEN LET ph == ResamplePhase((k - at) \div nChannels, 0, resampleOffset % FIXED_ONE)
            IN Lerp(ph[1], ph[2], (k - at) % nChannels)
       ELSE cache[k]]

\* The fast path of lines 351-360: plain conversion of n frames.
ConvertPCM(cache, at, n) ==
  [k \in DOMAIN cache |->
     IF at <= k /\ k < at + n * nChannels THEN CacheAt(k - at) * FIXED_ONE ELSE cache[k]]

\* A faulty variant of MaskFraction: the integer part is not chopped off.
KeepInteger(x) == x

\* x & FIXED_FRACTION_MASK (line 376).
MaskFraction(x) == x % FIXED_ONE

DecodeReturn ==
  /\ pc = "decode"
  /\ ~(decoded < toDecode /\ buffer # NoBuffer)
  /\ LET n == ToResample
         dec1 == U64(curBufferOffsetDec + n * resampleStep)
     IN /\ toDecode' = DecodedCount
        /\ IF resampleStep = FIXED_ONE
             THEN /\ outputResampleCache' = ConvertPCM(outputResampleCache, resampleCache, n)
                  /\ resampleCache' = resampleCache + n * nChannels
                  /\ UNCHANGED resampleOffset
             ELSE /\ outputResampleCache' = ResamplePCM(outputResampleCache, resampleCache, n)
                  /\ resampleOffset' = (resampleOffset + n * resampleStep) % FIXED_ONE
                  /\ UNCHANGED resampleCache
        /\ IF bufferList # <<>>
             THEN /\ curBufferOffsetDec' = MaskFraction(dec1)
                  /\ curBufferOffset' =
                       U32(U32(curBufferOffset + (dec1 \div FIXED_ONE)) - resetOffset)
             ELSE /\ curBufferOffsetDec' = 0
                  /\ curBufferOffset' = 0
        /\ mixed' = U32(mixed + n)
  \* the decoded frames are consumed: no cell counts as written by a later call
  /\ decodeCache' = [i \in DOMAIN decodeCache |-> Stale]
  /\ frames' = <<>>
  /\ decoded' = 0
  /\ resetOffset' = 0
  /\ buffer' = NoBuffer
  /\ pc' = "mixLoop"
  /\ UNCHANGED <<active, masterOutput, output, processingStage, submixStages, inputCache,
                 sends, srcActive, callback, nChannels, freqRatio, resampleFreqRatio,
                 resampleStep, heap, bufferList, stage, submix, trace, notes, submitted, shapes,
                 controls, given, consumed>>
  /\ UNCHANGED <<mixVars, ffVars, adpcm>>

(***************************************************************************)
(* MixSource leaves its loop and distributes to the sends (lines 387-446). *)
(***************************************************************************)
\* The stream a send writes: master.output or the target's mix.inputCache.
Streams == [v \in Submixes \cup {"M"} |-> IF v = "M" THEN output ELSE inputCache[v]]

\* Lines 415-434 for send i: every produced frame j, destination channel co and
\* source channel ci.
SourceSendTo(stream, i) ==
  [k \in DOMAIN stream |->
     IF k \div OutChannels < mixed
       THEN AccumulateChannels(stream[k],
              [ci \in 0 .. nChannels - 1 |->
                 outputResampleCache[(k \div OutChannels) * nChannels + ci]
                   * ChannelVolume("S", ci) * Volume("S")
                   * SendCoefficient("S", i, k % OutChannels, ci)],
              0, nChannels)
       ELSE stream[k]]

\* The send loop of lines 401-435, from send i on.
RECURSIVE SourceSends(_, _)
SourceSends(streams, i) ==
  IF i > Len(sends.src) THEN streams
  ELSE SourceSends([streams EXCEPT ![sends.src[i]] = SourceSendTo(@, i)], i + 1)

MixSourceSend ==
  /\ pc = "mixLoop"
  /\ ~(mixed < OutputSamples /\ bufferList # <<>>)
  /\ IF mixed # 0 /\ Len(sends.src) # 0
       THEN LET after == SourceSends(Streams, 1)
            IN /\ output' = after["M"]
               /\ inputCache' = [m \in Submixes |-> after[m]]
               /\ given' = SourceSends(given, 1)
       ELSE UNCHANGED <<output, inputCache, given>>
  /\ trace' = Logged(Fired(<<<<callback, Ev("OnVoiceProcessingPassEnd", "S", 0)>>>>)
                       \o <<Ev("MixSourceReturn", "S", 0)>>)
  /\ pc' = "submixes"
  /\ stage' = 0
  /\ submix' = 1
  \* the locals of MixSource end with the call
  /\ mixed' = 0
  /\ resampleCache' = 0
  /\ toDecode' = 0
  /\ UNCHANGED <<active, masterOutput, processingStage, submixStages, sends, srcActive,
                 callback, nChannels, freqRatio, resampleFreqRatio, resampleStep,
                 resampleOffset, heap, bufferList, curBufferOffset, curBufferOffsetDec,
                 decodeCache, outputResampleCache, decoded, resetOffset, buffer, notes,
                 submitted, shapes, controls, frames, consumed>>
  /\ UNCHANGED <<mixVars, ffVars, adpcm>>

(***************************************************************************)
(* FAudio_INTERNAL_MixSubmix (lines 448-532).                              *)
(***************************************************************************)
\* FAudio_PlatformResample, not part of the sources: with equal input and output
\* rates it hands the input block on and returns its sample count.
PlatformResample(input) == input

\* Lines 471-487: per-channel gain and voice gain on the resampled block.
ApplyVolume(m, block) ==
  [k \in DOMAIN block |-> block[k] * ChannelVolume(m, k % OutChannels) * Volume(m)]

\* Lines 507-523 for send i of submix m.
SubmixSendTo(stream, m, i, block) ==
  [k \in DOMAIN stream |->
     AccumulateChannels(stream[k],
       [ci \in 0 .. OutChannels - 1 |->
          block[(k \div OutChannels) * OutChannels + ci]
            * SendCoefficient(m, i, k % OutChannels, ci)],
       0, OutChannels)]

\* A faulty variant of SubmixSends: the gains are applied again for every send.
RECURSIVE SubmixSendsRegained(_, _, _, _)
SubmixSendsRegained(streams, m, i, block) ==
  IF i > Len(sends[m]) THEN streams
  ELSE SubmixSendsRegained([streams EXCEPT ![sends[m][i]] = SubmixSendTo(@, m, i, block)],
                           m, i + 1, ApplyVolume(m, block))

\* The send loop of lines 493-524, from send i on.
RECURSIVE SubmixSends(_, _, _, _)
SubmixSends(streams, m, i, block) ==
  IF i > Len(sends[m]) THEN streams
  ELSE SubmixSends([streams EXCEPT ![sends[m][i]] = SubmixSendTo(@, m, i, block)],
                   m, i + 1, block)

\* A faulty variant of MixSubmix: a voice without sends returns at once, its
\* input left as it is.
MixSubmixEarlyReturn(streams, m) ==
  IF Len(sends[m]) = 0 THEN streams
  ELSE [SubmixSends(streams, m, 1, ApplyVolume(m, PlatformResample(inputCache[m])))
          EXCEPT ![m] = ZeroBlock(OutputSamples * OutChannels)]

\* A faulty variant of MixSubmix: the input accumulator is not zeroed after the
\* sends.
MixSubmixKeepsInput(streams, m) ==
  IF Len(sends[m]) = 0 THEN streams
  ELSE SubmixSends(streams, m, 1, ApplyVolume(m, PlatformResample(inputCache[m])))

\* The streams after submix m was mixed: its sends, then its input is zeroed
\* (lines 526-531).
MixSubmix(streams, m) ==
  LET sent == IF Len(sends[m]) = 0 THEN streams
              ELSE SubmixSends(streams, m, 1, ApplyVolume(m, PlatformResample(inputCache[m])))
  IN [sent EXCEPT ![m] = ZeroBlock(OutputSamples * OutChannels)]

\* What the sends of submix m add to the history of this update.
GivenBySubmix(m) ==
  IF Len(sends[m]) = 0 THEN given
  ELSE SubmixSends(given, m, 1, ApplyVolume(m, PlatformResample(inputCache[m])))

(***************************************************************************)
(* The stage loop and the end of the update (lines 573-600).               *)
(***************************************************************************)
\* A faulty variant of StageWalk: the stage loop run from the last stage down.
StageWalkDescending ==
  [k \in 1 .. submixStages * Len(SubmixList) |->
     <<submixStages - 1 - ((k - 1) \div Len(SubmixList)), ((k - 1) % Len(SubmixList)) + 1>>]

\* The iterations of the stage loop and of the list walk inside it, in the order
\* the code runs them: <<i, index in audio->submixes>> (lines 574-584).
StageWalk ==
  [k \in 1 .. submixStages * Len(SubmixList) |->
     <<(k - 1) \div Len(SubmixList), ((k - 1) % Len(SubmixList)) + 1>>]

\* Where in StageWalk the cursor <<stage, submix>> stands.
WalkAt == stage * Len(SubmixList) + submix

\* Whether iteration <<i, k>> mixes its submix (line 579).
StageMatches(it) == processingStage[SubmixList[it[2]]] = it[1]

\* The iterations from the cursor on that mix a submix.
MixesLeft == {k \in WalkAt .. Len(StageWalk) : StageMatches(StageWalk[k])}

\* The walk runs on to the next submix whose stage matches and mixes it.
SubmixStep ==
  /\ pc = "submixes"
  /\ MixesLeft # {}
  /\ LET k == CHOOSE x \in MixesLeft : \A y \in MixesLeft : x <= y
         i == StageWalk[k][1]
         m == SubmixList[StageWalk[k][2]]
         after == MixSubmix(Streams, m)
     IN /\ output' = after["M"]
        /\ inputCache' = [x \in Submixes |-> after[x]]
        /\ given' = GivenBySubmix(m)
        /\ consumed' = [consumed EXCEPT ![m] = inputCache[m]]
        /\ trace' = Logged(<<Ev("MixSubmix", m, i)>>)
        /\ stage' = k \div Len(SubmixList)
        /\ submix' = (k % Len(SubmixList)) + 1
  /\ UNCHANGED <<active, masterOutput, processingStage, submixStages, sends, srcActive,
                 callback, nChannels, freqRatio, resampleFreqRatio, resampleStep,
                 resampleOffset, heap, bufferList, curBufferOffset, curBufferOffsetDec,
                 decodeCache, outputResampleCache, pc, mixed, resampleCache, toDecode,
                 decoded, resetOffset, buffer, notes, submitted, shapes, controls, frames>>
  /\ UNCHANGED <<mixVars, ffVars, adpcm>>

\* No submix is left to mix: the stage loop runs out, pass-end callbacks fire.
UpdateEngineEnd ==
  /\ pc = "submixes"
  /\ MixesLeft = {}
  /\ trace' = Logged(PassEndEvents)
  /\ pc' = "idle"
  /\ stage' = 0
  /\ submix' = 1
  /\ given' = [m \in Submixes \cup {"M"} |-> ZeroBlock(OutputSamples * OutChannels)]
  /\ consumed' = [m \in Submixes |-> <<>>]
  /\ UNCHANGED <<progVars, output, mixed, resampleCache, toDecode, decoded, resetOffset,
                 buffer, notes, submitted, shapes, controls, frames>>
  /\ UNCHANGED <<mixVars, ffVars, adpcm>>

(***************************************************************************)
(* The mixing study: one destination sample stream[j * oChan + co] and the *)
(* senders that accumulate into it (lines 420-433 and 511-522), in any     *)
(* order of the senders.                                                   *)
(***************************************************************************)
\* Gains and samples of the senders, in model units.
MixGains == {1, 2}

MixSamples == {-120, -50, 50, 120}

MixContributions == {g * x : g \in MixGains, x \in MixSamples}

\* The scenario the study runs in: a stereo source and submix A both send to B.
MixConfig ==
  [nChannels |-> 2, callback |-> TRUE, freqRatio |-> 2, sends |-> FanOut,
   stages |-> [A |-> 0, B |-> 1], shapes |-> BufferShapes]

InitMix ==
  /\ InitEngine(MixConfig)
  /\ mixTerms \in [1 .. MixVoices -> MixContributions]
  /\ mixPending = 1 .. MixVoices
  /\ mixStream = 0
  /\ mixExact = 0
  /\ ffmpeg = NoFFmpeg
  /\ wBitsPerSample = 16
  /\ ffCall = NoCall
  /\ adpcm = NoBlock

\* stream[..] = FAudio_clamp(stream[..] + contribution of sender i, -max, max).
MixAccumulate(i) ==
  /\ i \in mixPending
  /\ mixStream' = Accumulate(mixStream, mixTerms[i])
  /\ mixExact' = mixExact + mixTerms[i]
  /\ mixPending' = mixPending \ {i}
  /\ UNCHANGED <<mixTerms, progVars, output, pc, localVars, trace, histVars, ffVars, adpcm>>

NextMix == \E i \in 1 .. MixVoices : MixAccumulate(i)

SpecMix == InitMix /\ [][NextMix]_vars

(***************************************************************************)
(* The codec study: decoder calls (FAudio_INTERNAL_DecodeFFMPEG, with      *)
(* FAudio_INTERNAL_FillConvertCache) and FAudio_FFMPEG_reset on one WMA    *)
(* buffer, at the play positions and sample counts a caller may pass.      *)
(***************************************************************************)
\* decSampleSize (line 348).
DecSampleSize == (nChannels * wBitsPerSample) \div 8

\* outSampleSize (line 349).
OutSampleSize == nChannels * SizeofFloat

\* Decoded frames of the first p packets.
RECURSIVE CumulativeFrames(_)
CumulativeFrames(p) == IF p = 0 THEN 0 ELSE CumulativeFrames(p - 1) + FrameSamples[p]

\* bufferWMA->pDecodedPacketCumulativeBytes[i], i counted from 0: the decoded
\* bytes of packets 0 .. i, in the sample size of the format.
DecodedPacketCumulativeBytes(i) == CumulativeFrames(i + 1) * DecSampleSize

\* The sample of channel c of frame f of the decoded stream, f counted from 0:
\* every sample of the stream is distinct and nonzero.
StreamSample(f, c) == 10 * (f + 1) + c

\* av_frame->nb_samples of the frame decoded from the packet at encOffset enc.
FrameLength(enc) == FrameSamples[enc \div BlockAlign + 1]

\* The interleaved samples of that frame (lines 317-334).
FrameCells(enc) ==
  [i \in 0 .. FrameLength(enc) * nChannels - 1 |->
     StreamSample(CumulativeFrames(enc \div BlockAlign) + i \div nChannels, i % nChannels)]

\* The codec reports an error in a FillConvertCache at ff.
CodecFails(ff, outcome) ==
  \/ outcome = "receiveError"
  \/ outcome # "ok" /\ ff.encOffset < AudioBytes

\* FAudio_INTERNAL_FillConvertCache (lines 234-339). avcodec_receive_frame
\* unreferences the frame before anything else, so nb_samples is 0 when the loop
\* is left without a frame (lines 257, 285).
FAudio_INTERNAL_FillConvertCache(ff, outcome) ==
  IF outcome = "receiveError"
    THEN ff
  ELSE IF ff.encOffset >= AudioBytes \/ outcome = "sendError"
    THEN [ff EXCEPT !.convertSamples = 0, !.convertOffset = 0]
  ELSE IF outcome = "receiveErrorAfterSend"
    THEN [ff EXCEPT !.encOffset = U32(@ + BlockAlign)]
  ELSE LET n == FrameLength(ff.encOffset)
           cells == FrameCells(ff.encOffset)
       IN [ff EXCEPT !.encOffset = U32(@ + BlockAlign),
                     !.convertCapacity = IF n * nChannels > @ THEN n * nChannels ELSE @,
                     !.convertCache = [i \in DOMAIN @ |->
                                         IF i < n * nChannels THEN cells[i] ELSE @[i]],
                     !.convertSamples = n,
                     !.convertOffset = 0]

\* The packet search of lines 387-393.
RECURSIVE SeekPacket(_, _)
SeekPacket(packetIdx, byteOffset) ==
  IF packetIdx > 0 /\ DecodedPacketCumulativeBytes(packetIdx) > byteOffset
    THEN SeekPacket(packetIdx - 1, byteOffset)
    ELSE packetIdx

\* The reseek of lines 383-409 to play position pos. The byte offsets of the
\* study stay far below 2^32 and are not reduced.
Reseek(ff, pos, outcome) ==
  LET byteOffset == pos * DecSampleSize
      packetIdx == SeekPacket(PacketCount - 1, byteOffset)
      cumulative == IF packetIdx = 0 THEN 0 ELSE DecodedPacketCumulativeBytes(packetIdx - 1)
      filled == FAudio_INTERNAL_FillConvertCache(
                  [ff EXCEPT !.encOffset = U32(packetIdx * BlockAlign)], outcome)
  IN [filled EXCEPT !.convertOffset = U32((byteOffset - cumulative) \div OutSampleSize),
                    !.decOffset = pos]

\* The test of lines 356-381: the stream has to be repositioned by a reseek.
NeedsReseek(ff, pos) ==
  \/ pos < ff.decOffset /\ ff.convertOffset < U32(ff.decOffset - pos)
  \/ pos > ff.decOffset

\* A faulty variant of Rewind: the convert cache is rewound, the tracked
\* position is left where it was.
RewindKeepsPosition(ff, pos) ==
  [ff EXCEPT !.convertOffset = U32(@ - U32(ff.decOffset - pos))]

\* The in-cache rewind of lines 363-369.
Rewind(ff, pos) ==
  [ff EXCEPT !.convertOffset = U32(@ - U32(ff.decOffset - pos)), !.decOffset = pos]

\* A float of the convert cache, or what a read past its allocation returns.
ConvertAt(ff, i, g) == IF i < ff.convertCapacity THEN ff.convertCache[i] ELSE g

\* The scenarios of the study: a mono and a stereo voice.
FFConfigs == {[MixConfig EXCEPT !.nChannels = n] : n \in {1, 2}}

InitFFMPEG ==
  /\ \E c \in FFConfigs : InitEngine(c)
  /\ mixTerms = <<>>
  /\ mixPending = {}
  /\ mixStream = 0
  /\ mixExact = 0
  /\ ffmpeg = NoFFmpeg
  /\ wBitsPerSample \in BitsPerSample
  /\ ffCall = NoCall
  /\ adpcm = NoBlock

\* FAudio_FFMPEG_reset (lines 57-63).
FFmpegReset ==
  /\ ffCall.pc = "idle" /\ ~ffCall.reset
  /\ ffmpeg' = [ffmpeg EXCEPT !.encOffset = 0, !.decOffset = 0]
  /\ ffCall' = [ffCall EXCEPT !.reset = TRUE]
  /\ UNCHANGED <<progVars, output, pc, localVars, trace, histVars, mixVars, wBitsPerSample, adpcm>>

\* FAudio_INTERNAL_DecodeFFMPEG up to its loop (lines 347-409).
FFmpegDecodeBegin ==
  /\ ffCall.pc = "idle" /\ ffCall.calls < MaxCalls
  /\ \E samples \in 1 .. MaxRequest, pos \in 0 .. MaxPosition, outcome \in CodecOutcomes :
       LET reseek == NeedsReseek(ffmpeg, pos)
           failed == reseek /\ CodecFails(
                       [ffmpeg EXCEPT !.encOffset =
                          SeekPacket(PacketCount - 1, pos * DecSampleSize) * BlockAlign],
                       outcome)
       IN /\ ffmpeg' = IF reseek THEN Reseek(ffmpeg, pos, outcome)
                       ELSE IF pos < ffmpeg.decOffset THEN Rewind(ffmpeg, pos)
                       ELSE ffmpeg
          /\ ffCall' = [pc |-> "loop", calls |-> ffCall.calls + 1, samples |-> samples,
                        done |-> 0, curBufferOffset |-> pos,
                        decodeCache |-> [i \in DOMAIN ffCall.decodeCache |-> Stale],
                        failed |-> failed, faulted |-> ffCall.faulted \/ failed,
                        reseek |-> reseek, decOffset |-> ffmpeg.decOffset,
                        reset |-> FALSE, afterReset |-> ffCall.reset, drained |-> FALSE]
  /\ UNCHANGED <<progVars, output, pc, localVars, trace, histVars, mixVars, wBitsPerSample, adpcm>>

\* One iteration of the loop of lines 411-434.
FFmpegDecodeLoop ==
  /\ ffCall.pc = "loop" /\ ffCall.done < ffCall.samples
  /\ \E outcome \in CodecOutcomes, g \in Garbage :
       LET refill == ffmpeg.convertOffset >= ffmpeg.convertSamples
           ff1 == IF refill THEN FAudio_INTERNAL_FillConvertCache(ffmpeg, outcome) ELSE ffmpeg
           failed == ffCall.failed \/ (refill /\ CodecFails(ffmpeg, outcome))
           available == U32(ff1.convertSamples - ff1.convertOffset)
           todo == FAudio_min(available, U32(ffCall.samples - ffCall.done))
           to == ffCall.done * nChannels
           from == ff1.convertOffset * nChannels
       IN IF available = 0
            THEN /\ ffmpeg' = ff1
                 /\ ffCall' = [ffCall EXCEPT !.pc = "end", !.failed = failed,
                                               !.faulted = @ \/ failed,
                                               !.drained = ff1.encOffset >= AudioBytes]
            ELSE /\ ffmpeg' = [ff1 EXCEPT !.convertOffset = U32(@ + todo)]
                 /\ ffCall' = [ffCall EXCEPT
                      !.done = U32(@ + todo),
                      !.failed = failed,
                      !.faulted = @ \/ failed,
                      !.decodeCache = [i \in DOMAIN @ |->
                         IF to <= i /\ i < to + todo * nChannels
                           THEN ConvertAt(ff1, from + (i - to), g)
                           ELSE @[i]]]
  /\ UNCHANGED <<progVars, output, pc, localVars, trace, histVars, mixVars, wBitsPerSample, adpcm>>

\* The end of FAudio_INTERNAL_DecodeFFMPEG (lines 436-447).
FFmpegDecodeEnd ==
  /\ ffCall.pc = "end" \/ (ffCall.pc = "loop" /\ ~(ffCall.done < ffCall.samples))
  /\ ffCall' = [ffCall EXCEPT
       !.pc = "idle",
       !.decodeCache =
          IF ffCall.done < ffCall.samples
            THEN [i \in DOMAIN @ |->
                    IF /\ ffCall.done * nChannels <= i
                       /\ i < ffCall.done * nChannels
                                + (ffCall.samples - ffCall.done) * nChannels
                      THEN 0 ELSE @[i]]
            ELSE @]
  /\ ffmpeg' = [ffmpeg EXCEPT !.decOffset = U32(@ + ffCall.samples)]
  /\ UNCHANGED <<progVars, output, pc, localVars, trace, histVars, mixVars, wBitsPerSample, adpcm>>

NextFFMPEG ==
  \/ FFmpegReset
  \/ FFmpegDecodeBegin
  \/ FFmpegDecodeLoop
  \/ FFmpegDecodeEnd

SpecFFMPEG == InitFFMPEG /\ [][NextFFMPEG]_vars

(***************************************************************************)
(* The MSADPCM study: FAudio_INTERNAL_DecodeMonoMSADPCMBlock (lines        *)
(* 764-810) and FAudio_INTERNAL_DecodeStereoMSADPCMBlock (lines 812-868)   *)
(* on blocks that carry the same channel data.                             *)
(***************************************************************************)
\* C integer division, truncating toward zero.
TruncDiv(a, b) == IF a >= 0 THEN a \div b ELSE -((-a) \div b)

\* The conversion of an int32_t to int16_t.
Int16(x) == LET v == x % 65536 IN IF v >= 32768 THEN v - 65536 ELSE v

\* The tables of FAudio_INTERNAL_ParseNibble (lines 683-696).
AdaptionTable == <<230, 230, 230, 230, 307, 409, 512, 614,
                   768, 614, 512, 409, 307, 230, 230, 230>>

AdaptCoeff_1 == <<256, 512, 0, 192, 240, 460, 392>>

AdaptCoeff_2 == <<0, -256, 0, 64, 0, -208, -232>>

\* FAudio_INTERNAL_ParseNibble (lines 677-722) on the channel state st: the
\* state after the call, the sample returned being its sample1.
FAudio_INTERNAL_ParseNibble(nibble, st) ==
  LET signedNibble == IF nibble >= 8 THEN nibble - 16 ELSE nibble
      sampleInt == TruncDiv(st.sample1 * AdaptCoeff_1[st.predictor + 1]
                              + st.sample2 * AdaptCoeff_2[st.predictor + 1], 256)
                     + signedNibble * st.delta
      sample == FAudio_clamp(sampleInt, -32768, 32767)
      delta == Int16(TruncDiv(AdaptionTable[nibble + 1] * st.delta, 256))
  IN [predictor |-> st.predictor,
      delta |-> IF delta < 16 THEN 16 ELSE delta,
      sample1 |-> sample,
      sample2 |-> st.sample1]

\* READ(item, int16_t) at byte `at` of buf (lines 724-726), little-endian host.
ReadInt16(buf, at) == Int16(buf[at] + 256 * buf[at + 1])

\* FAudio_INTERNAL_ReadMonoPreamble (lines 728-739).
FAudio_INTERNAL_ReadMonoPreamble(buf) ==
  [predictor |-> buf[1], delta |-> ReadInt16(buf, 2),
   sample1 |-> ReadInt16(buf, 4), sample2 |-> ReadInt16(buf, 6)]

\* FAudio_INTERNAL_ReadStereoPreamble (lines 741-760): the left and the right
\* channel state.
FAudio_INTERNAL_ReadStereoPreamble(buf) ==
  <<[predictor |-> buf[1], delta |-> ReadInt16(buf, 3),
     sample1 |-> ReadInt16(buf, 7), sample2 |-> ReadInt16(buf, 11)],
    [predictor |-> buf[2], delta |-> ReadInt16(buf, 5),
     sample1 |-> ReadInt16(buf, 9), sample2 |-> ReadInt16(buf, 13)]>>

\* The loop of lines 793-809 from byte i of nibbles on: blockCache so far is out.
RECURSIVE MonoNibbleLoop(_, _, _, _)
MonoNibbleLoop(nibbles, i, st, out) ==
  IF i > Len(nibbles) THEN out
  ELSE LET first == FAudio_INTERNAL_ParseNibble(nibbles[i] \div 16, st)
           second == FAudio_INTERNAL_ParseNibble(nibbles[i] % 16, first)
       IN MonoNibbleLoop(nibbles, i + 1, second, out \o <<first.sample1, second.sample1>>)

\* FAudio_INTERNAL_DecodeMonoMSADPCMBlock (lines 764-810): the blockCache.
FAudio_INTERNAL_DecodeMonoMSADPCMBlock(buf) ==
  LET st == FAudio_INTERNAL_ReadMonoPreamble(buf)
  IN MonoNibbleLoop(SubSeq(buf, 8, 7 + NibbleBytes), 1, st, <<st.sample1, st.sample2>>)

\* The loop of lines 851-867 from byte i of nibbles on.
RECURSIVE StereoNibbleLoop(_, _, _, _, _)
StereoNibbleLoop(nibbles, i, l, r, out) ==
  IF i > Len(nibbles) THEN out
  ELSE LET left == FAudio_INTERNAL_ParseNibble(nibbles[i] \div 16, l)
           right == FAudio_INTERNAL_ParseNibble(nibbles[i] % 16, r)
       IN StereoNibbleLoop(nibbles, i + 1, left, right,
                           out \o <<left.sample1, right.sample1>>)

\* FAudio_INTERNAL_DecodeStereoMSADPCMBlock (lines 812-868): the blockCache.
FAudio_INTERNAL_DecodeStereoMSADPCMBlock(buf) ==
  LET st == FAudio_INTERNAL_ReadStereoPreamble(buf)
      l == st[1]
      r == st[2]
  IN StereoNibbleLoop(SubSeq(buf, 15, 14 + NibbleBytes * 2), 1, l, r,
                      <<l.sample2, r.sample2, l.sample1, r.sample1>>)

\* The two bytes of an int16_t in memory, little-endian host.
Int16Bytes(x) == <<(x % 65536) % 256, (x % 65536) \div 256>>

\* The bytes of a mono block that carries channel data x.
MonoBlockBytes(x) ==
  <<x.predictor>> \o Int16Bytes(x.delta) \o Int16Bytes(x.sample1) \o Int16Bytes(x.sample2)
    \o [i \in 1 .. NibbleBytes |-> x.nibbles[2 * i - 1] * 16 + x.nibbles[2 * i]]

\* The bytes of a stereo block that carries channel data l left and r right.
StereoBlockBytes(l, r) ==
  <<l.predictor, r.predictor>> \o Int16Bytes(l.delta) \o Int16Bytes(r.delta)
    \o Int16Bytes(l.sample1) \o Int16Bytes(r.sample1)
    \o Int16Bytes(l.sample2) \o Int16Bytes(r.sample2)
    \o [i \in 1 .. NibbleBytes * 2 |-> l.nibbles[i] * 16 + r.nibbles[i]]

\* The channel data of the study: predictor, delta, seed samples and the nibble
\* sequence of one block.
Predictors == {0, 1, 5}

Deltas == {16, 300}

Seeds == {-3000, 70}

NibbleValues == {3, 9}

ChannelData ==
  [predictor : Predictors, delta : Deltas, sample1 : Seeds, sample2 : Seeds,
   nibbles : [1 .. NibbleBytes * 2 -> NibbleValues]]

\* What the other channel of the stereo block carries.
OtherChannel ==
  [predictor |-> 3, delta |-> 40, sample1 |-> 900, sample2 |-> -20,
   nibbles |-> [i \in 1 .. NibbleBytes * 2 |-> (5 * i) % 16]]

InitADPCM ==
  /\ InitEngine(MixConfig)
  /\ mixTerms = <<>>
  /\ mixPending = {}
  /\ mixStream = 0
  /\ mixExact = 0
  /\ ffmpeg = NoFFmpeg
  /\ wBitsPerSample = 16
  /\ ffCall = NoCall
  /\ \E x \in ChannelData, side \in {0, 1} :
       adpcm = [input |-> x, side |-> side, mono |-> <<>>, stereo |-> <<>>]

\* The mono decoder decodes the block that carries the channel data.
DecodeMonoBlock ==
  /\ adpcm.mono = <<>>
  /\ adpcm' = [adpcm EXCEPT
       !.mono = FAudio_INTERNAL_DecodeMonoMSADPCMBlock(MonoBlockBytes(adpcm.input))]
  /\ UNCHANGED <<progVars, output, pc, localVars, trace, histVars, mixVars, ffVars>>

\* The stereo decoder decodes the block that carries the channel data in
\* channel adpcm.side.
DecodeStereoBlock ==
  /\ adpcm.stereo = <<>>
  /\ adpcm' = [adpcm EXCEPT
       !.stereo = FAudio_INTERNAL_DecodeStereoMSADPCMBlock(
                    IF adpcm.side = 0 THEN StereoBlockBytes(adpcm.input, OtherChannel)
                    ELSE StereoBlockBytes(OtherChannel, adpcm.input))]
  /\ UNCHANGED <<progVars, output, pc, localVars, trace, histVars, mixVars, ffVars>>

NextADPCM ==
  \/ DecodeMonoBlock
  \/ DecodeStereoBlock

SpecADPCM == InitADPCM /\ [][NextADPCM]_vars

Next ==
  \/ \E shape \in BufferShapes : SubmitSourceBuffer(shape)
  \/ \E r \in FreqRatios : SetFrequencyRatio(r)
  \/ \E a \in BOOLEAN : SetEngineActive(a)
  \/ \E a \in BOOLEAN : SetVoiceActive(a)
  \/ UpdateEngineInactive
  \/ UpdateEngineBegin
  \/ SkipSource
  \/ MixSourceBegin
  \/ MixLoopDecode
  \/ DecodeIter
  \/ DecodeReturn
  \/ MixSourceSend
  \/ SubmixStep
  \/ UpdateEngineEnd

Spec == Init /\ [][Next]_vars

(***************************************************************************)
(* Properties of the mixing core.                                          *)
(***************************************************************************)
\* The positions of the log that hold the event `name`.
At(name) == {k \in 1 .. Len(trace) : trace[k].ev = name}

\* C1: for every source voice mixed in a block, the voice-processing-pass-end
\* notification fires exactly once, after that block's pass-start notification,
\* unconditionally: whenever FAudio_INTERNAL_MixSource has returned for a voice
\* with a callback, the log of the update holds exactly one pass-start and
\* exactly one pass-end of the voice, in this order, before the return.
C1_PassEndExactlyOnce ==
  \A r \in At("MixSourceReturn") :
    callback =>
      \E s \in At("OnVoiceProcessingPassStart"), e \in At("OnVoiceProcessingPassEnd") :
        /\ s < e /\ e < r
        /\ At("OnVoiceProcessingPassStart") = {s}
        /\ At("OnVoiceProcessingPassEnd") = {e}

\* MixSource has returned for a voice with a callback whose queue was empty on
\* entry, and no pass-end is in the log.
C1_EmptyQueueReturn ==
  /\ callback
  /\ bufferList = <<>>
  /\ At("MixSourceReturn") # {}
  /\ At("OnVoiceProcessingPassStart") # {}
  /\ At("OnVoiceProcessingPassEnd") = {}

\* The queue ran dry inside a decode call: DecodeBuffers is about to return short.
Starved == pc = "decode" /\ buffer = NoBuffer /\ decoded < toDecode

\* What a decoder stores for channel ch of payload frame fr = <<id, index>>.
Stored(fr, ch) ==
  IF fr[2] < AudioFrames(heap[fr[1]]) THEN {AudioData(fr[1], fr[2], ch)} ELSE Garbage

\* C2: starvation.  When a decode request cannot be satisfied because the queue
\* empties, the decode cache holds the real frames decoded so far followed by
\* exact zeros for every remaining requested frame, for every channel of every
\* frame, with mono and with stereo sources.
C2_StarvationZeroFill ==
  Starved =>
    \A f \in 0 .. toDecode - 1 : \A ch \in 0 .. nChannels - 1 :
      LET cell == decodeCache[f * nChannels + ch]
      IN IF f < decoded THEN cell \in Stored(frames[f + 1], ch) ELSE cell = 0

\* A stereo decode call that ran dry after real frames were decoded.
C2_StereoStarved == Starved /\ nChannels = 2 /\ decoded > 0

\* The buffers submitted so far, by id.
Submitted == 1 .. submitted

\* C3: loop semantics.  A buffer submitted with LoopCount = 3 and loop window
\* [L, L+len) is traversed over exactly that window 3 more times before it is
\* finalized: every loop rewind happens at the window end L+len, OnLoopEnd fires
\* at most 3 times, and once the buffer is finalized OnLoopEnd has fired exactly
\* 3 times and OnBufferEnd exactly once.
C3_ThreeTraversals ==
  \A id \in Submitted :
    LET b == notes[id].submittedAs
    IN (callback /\ b.LoopCount = 3 /\ b.LoopLength > 0) =>
         /\ notes[id].rewindAt \subseteq {b.LoopBegin + b.LoopLength}
         /\ notes[id].loopEnd <= 3
         /\ notes[id].freed > 0 => (notes[id].loopEnd = 3 /\ notes[id].bufferEnd = 1)

\* A buffer submitted with LoopCount = 3 and a loop window that starts after the
\* first frame has been rewound.
C3_LoopedAtOffset ==
  \E id \in Submitted :
    /\ notes[id].submittedAs.LoopCount = 3
    /\ notes[id].submittedAs.LoopBegin > 0
    /\ notes[id].rewindAt # {}

\* The buffers submitted with LoopCount = 255.
InfiniteLoops == {id \in Submitted : notes[id].submittedAs.LoopCount = FAUDIO_LOOP_INFINITE}

\* In every state a buffer submitted with LoopCount = 255 still has LoopCount = 255,
\* is still in the queue, and was neither finalized nor freed.
C4_NeverFinalized ==
  \A id \in InfiniteLoops :
    /\ heap[id].LoopCount = FAUDIO_LOOP_INFINITE
    /\ \E k \in 1 .. Len(bufferList) : bufferList[k] = id
    /\ notes[id].bufferEnd = 0
    /\ notes[id].freed = 0

\* A decode iteration that reaches the iteration end of such a buffer rewinds the
\* position to the loop start and fires OnLoopEnd.
C4_RewindsAtEnd ==
  \A id \in InfiniteLoops :
    (pc = "decode" /\ decoded < toDecode /\ buffer = id /\ EndRead < Decoding) =>
      /\ curBufferOffset' = heap[id].LoopBegin
      /\ callback => notes'[id].loopEnd = Bump(notes[id].loopEnd)
      /\ (callback /\ Len(trace') < MaxTrace) =>
           trace'[Len(trace')] = Ev("OnLoopEnd", "S", id)

\* C4: a head buffer with LoopCount = 255 keeps LoopCount = 255 in every reachable
\* state and is never finalized (OnBufferEnd never fires for it, it is never
\* detached or freed), and every time its iteration end is reached the position
\* rewinds to the loop start and OnLoopEnd fires.
C4_InfiniteLoop == []C4_NeverFinalized /\ [][C4_RewindsAtEnd]_vars

\* An infinitely looping buffer is at the head and has been rewound twice.
C4_RewoundTwice ==
  \E id \in InfiniteLoops :
    /\ bufferList # <<>> /\ Head(bufferList) = id
    /\ notes[id].loopEnd >= 2

\* C5: the start-of-buffer notification fires exactly once per buffer over the
\* buffer's whole time at the head of the queue: OnBufferStart has fired at most
\* once for every buffer, in every state.
C5_BufferStartOnce == \A id \in Submitted : notes[id].start <= 1

\* OnBufferStart has fired for a buffer that is now being decoded from a position
\* equal to its PlayBegin again.
C5_BackAtPlayBegin ==
  /\ pc = "decode" /\ buffer # NoBuffer /\ decoded < toDecode
  /\ callback
  /\ notes[buffer].start >= 1
  /\ StartOfBuffer

\* C6: the buffers of a source voice are finalized strictly in queue order; each
\* is detached and freed at most once, together with its one OnBufferEnd; the
\* queue holds exactly the buffers not yet freed, in submission order; only the
\* head of the queue is ever handed to the decoder, never a freed buffer; and in
\* the log of an update OnBufferEnd comes right before the free of that buffer and
\* the frees come in queue order.
C6_FifoFinalization ==
  /\ \A id \in Submitted :
       /\ notes[id].freed <= 1
       /\ callback => notes[id].bufferEnd = notes[id].freed
       /\ ~notes[id].stray
       /\ \A later \in Submitted :
            (id < later /\ notes[later].freed > 0) => notes[id].freed > 0
  /\ LET live == {id \in Submitted : notes[id].freed = 0}
     IN /\ Len(bufferList) = Cardinality(live)
        /\ \A k \in 1 .. Len(bufferList) : bufferList[k] = submitted - Len(bufferList) + k
        /\ \A k \in 1 .. Len(bufferList) : bufferList[k] \in live
  /\ buffer # NoBuffer => (bufferList # <<>> /\ buffer = Head(bufferList))
  /\ \A k \in At("free") :
       /\ callback => (k > 1 /\ trace[k - 1].ev \in {"OnBufferEnd", "OnStreamEnd"})
       /\ \A j \in At("free") : j < k => trace[j].n < trace[k].n

\* Two buffers were finalized and freed, one after the other.
C6_BothFreed ==
  /\ submitted = 2
  /\ notes[1].freed = 1 /\ notes[2].freed = 1
  /\ notes[1].decodes > 0 /\ notes[2].decodes > 0

\* The submixes that send to voice m.
SubmixSendersOf(m) == {v \in Submixes : \E k \in 1 .. Len(sends[v]) : sends[v][k] = m}

\* C7: stage ordering.  When a submix whose senders all have a lower stage is
\* mixed, its input accumulator holds everything that was distributed to it in
\* this update (so with A at stage 0 sending to B at stage 1, all of A's output
\* of the block); and no submix is mixed in an update before the source voice,
\* if active, has been mixed and returned, nor before every submix of a lower
\* stage has been mixed, each at the loop iteration of its own stage.
C7_StageOrdering ==
  /\ \A m \in Submixes :
       ( /\ consumed[m] # <<>>
         /\ \A v \in SubmixSendersOf(m) : processingStage[v] < processingStage[m] )
       => consumed[m] = given[m]
  /\ Len(trace) < MaxTrace =>
       \A k \in At("MixSubmix") :
         /\ trace[k].n = processingStage[trace[k].v]
         /\ srcActive => \E r \in At("MixSourceReturn") : r < k
         /\ \A j \in 1 .. Len(trace) : trace[j].v = "S" => j < k
         /\ \A m \in Submixes :
              processingStage[m] < trace[k].n =>
                \E j \in At("MixSubmix") : j < k /\ trace[j].v = m

\* B (stage 1) was mixed holding nonzero input that A (stage 0) sent it in this
\* update.
C7_ChainMixed ==
  /\ processingStage["A"] < processingStage["B"]
  /\ "A" \in SubmixSendersOf("B")
  /\ consumed["A"] # <<>> /\ \E k \in DOMAIN consumed["A"] : consumed["A"][k] # 0
  /\ consumed["B"] # <<>> /\ \E k \in DOMAIN consumed["B"] : consumed["B"][k] # 0

\* C9: when the engine's active flag is false an engine update is a no-op: its
\* log holds the call alone (no engine or voice callback, no decoder call, no
\* free), the queue, the buffers and the positions of the voice are as before,
\* the master destination is not rebound, no submix accumulator is written and
\* the caller's cleared output buffer is as the caller handed it in.
C9_InactiveUpdateIsNoOp ==
  [][(pc = "idle" /\ ~active /\ trace' # <<>>) =>
       /\ trace' = <<Ev("UpdateEngine", "M", 0)>>
       /\ pc' = "idle"
       /\ output' = ZeroBlock(OutputSamples * OutChannels)
       /\ UNCHANGED <<masterOutput, inputCache, heap, bufferList, curBufferOffset,
                      curBufferOffsetDec, resampleOffset, resampleStep,
                      resampleFreqRatio, decodeCache, outputResampleCache, notes,
                      active, srcActive>>]_vars

\* An update ran on a stopped engine after an earlier update had bound the master
\* output, while the started voice was part way through a queued buffer.
C9_StoppedWithWork ==
  /\ ~active /\ pc = "idle"
  /\ trace = <<Ev("UpdateEngine", "M", 0)>>
  /\ bufferList # <<>> /\ curBufferOffset > 0
  /\ srcActive /\ masterOutput = 1

\* C10: in every active engine update processing-pass-start fires on every
\* registered engine callback, in registration order, before any source or
\* submix voice is mixed and before any voice notification; processing-pass-end
\* fires on every registered engine callback, in registration order, after the
\* last submix was mixed, and not before.
C10_EnginePassCallbacks ==
  LET n == Len(EngineCallbacks)
      running == pc # "idle"
      finished == pc = "idle" /\ Len(trace) > 1 /\ trace[1].ev = "UpdateEngine"
  IN /\ (running \/ finished) =>
          /\ trace[1] = Ev("UpdateEngine", "M", 0)
          /\ At("OnProcessingPassStart") = 2 .. n + 1
          /\ \A k \in 1 .. n : trace[k + 1].n = EngineCallbacks[k]
     /\ running => At("OnProcessingPassEnd") = {}
     /\ (finished /\ Len(trace) < MaxTrace) =>
          /\ At("OnProcessingPassEnd") = Len(trace) - n + 1 .. Len(trace)
          /\ \A k \in 1 .. n : trace[Len(trace) - n + k].n = EngineCallbacks[k]
          /\ \A j \in At("MixSubmix") \cup At("MixSource") : j < Len(trace) - n + 1

\* An active update that mixed the source and both submixes has ended.
C10_FullUpdateDone ==
  /\ pc = "idle"
  /\ At("MixSource") # {}
  /\ Cardinality(At("MixSubmix")) = 2
  /\ At("OnProcessingPassEnd") # {}

\* All contributions were accumulated into the destination sample.
MixDone == mixTerms # <<>> /\ mixPending = {}

\* The clamp of the exact sum of the contributions.
ClampedSum == FAudio_clamp(mixExact, -MaxVolumeLevel, MaxVolumeLevel)

Abs(x) == IF x < 0 THEN -x ELSE x

\* The sum of the magnitudes of the contributions of senders 1 .. k.
RECURSIVE SumAbs(_)
SumAbs(k) == IF k = 0 THEN 0 ELSE Abs(mixTerms[k]) + SumAbs(k - 1)

\* No order of accumulation can take a partial sum past the ceiling: all
\* contributions have one sign, or their magnitudes sum to at most the ceiling.
ClampOrderFree ==
  \/ \A i \in DOMAIN mixTerms : mixTerms[i] >= 0
  \/ \A i \in DOMAIN mixTerms : mixTerms[i] <= 0
  \/ SumAbs(Len(mixTerms)) <= MaxVolumeLevel

\* C8: additive mixing.  When all senders have accumulated their weighted
\* contributions into one destination sample, in whatever order, the sample
\* equals clamp(sum of the contributions, -max, max).
C8_SumThenClamp == MixDone => mixStream = ClampedSum

\* C8, as the code has it: the destination sample is the contributions folded by
\* clamped addition in send-processing order; it equals clamp(sum, -max, max),
\* whatever the order, when the contributions have one sign or their magnitudes
\* sum to at most the ceiling.
C8_SumThenClampWhenOrderFree == (MixDone /\ ClampOrderFree) => mixStream = ClampedSum

\* Contributions of one sign were accumulated and their sum is past the ceiling.
C8_SaturatedOneSign ==
  /\ MixDone
  /\ \A i \in DOMAIN mixTerms : mixTerms[i] > 0
  /\ mixExact > MaxVolumeLevel

\* DecodeBuffers has left its loop: MixSource is about to resample.
Resampling == pc = "decode" /\ ~(decoded < toDecode /\ buffer # NoBuffer)

\* The frames of the output resample cache a pass of n frames writes.
PassCells(n) == {k \in DOMAIN outputResampleCache :
                   resampleCache <= k /\ k < resampleCache + n * nChannels}

\* C11: fast-path equivalence.  Whenever MixSource resamples with a step of
\* exactly 1.0, the direct conversion of lines 351-360 and
\* FAudio_INTERNAL_ResamplePCM write the same output frames for the decoded
\* input, whatever fractional phase an earlier ratio left in resampleOffset, and
\* leave the same fractional phase behind.
C11_FastPathEquivalence ==
  (Resampling /\ resampleStep = FIXED_ONE) =>
    /\ \A k \in PassCells(ToResample) :
         ConvertPCM(outputResampleCache, resampleCache, ToResample)[k]
           = ResamplePCM(outputResampleCache, resampleCache, ToResample)[k]
    /\ (resampleOffset + ToResample * resampleStep) % FIXED_ONE = resampleOffset

\* MixSource resamples at step 1.0 while resampleOffset holds a fraction left by
\* an earlier ratio.
C11_LeftoverPhase ==
  /\ Resampling /\ resampleStep = FIXED_ONE
  /\ resampleOffset # 0
  /\ ToResample > 0

\* The step for ratio r (over RatioDen) of a voice of rate SampleRate whose first
\* send target, or the master when it has no sends, runs at InputSampleRate.
StepOf(r) ==
  DOUBLE_TO_FIXED(r * SampleRate,
                  RatioDen * InputSampleRate(IF Len(sends.src) = 0 THEN "M" ELSE sends.src[1]))

\* Once a step is cached it is the step of the cached ratio.
C12_StepOfCachedRatio == resampleFreqRatio # 0 => resampleStep = StepOf(resampleFreqRatio)

\* The cache changes only on entry to MixSource with a ratio that differs from the
\* cached one, and then to that ratio and its step; entering MixSource with the
\* cached ratio leaves both as they are.
C12_RecomputedOnlyOnChange ==
  /\ (resampleStep' # resampleStep \/ resampleFreqRatio' # resampleFreqRatio) =>
       /\ pc = "sources" /\ srcActive /\ resampleFreqRatio # freqRatio
       /\ resampleFreqRatio' = freqRatio
       /\ resampleStep' = StepOf(freqRatio)
  /\ (pc = "sources" /\ pc' # "sources" /\ srcActive) => resampleFreqRatio' = freqRatio

\* C12: the cached resample step is a pure function of the requested ratio, the
\* source rate and the rate of the first send target (the master without sends);
\* it is recomputed only when the ratio differs from the cached ratio, and mixing
\* again with an unchanged ratio leaves the cached step and ratio unchanged.
C12_StepCache == []C12_StepOfCachedRatio /\ [][C12_RecomputedOnlyOnChange]_vars

\* MixSource was entered again, with the ratio it had cached in an earlier update
\* and a step other than 1.0.
C12_SecondMixSameRatio ==
  /\ pc = "mixLoop" /\ At("decode") = {}
  /\ bufferList # <<>> /\ notes[Head(bufferList)].decodes > 0
  /\ controls = 0
  /\ resampleFreqRatio = freqRatio /\ resampleStep # FIXED_ONE

\* C13: the fractional play position is always in [0, 1) in fixed point terms:
\* curBufferOffsetDec is below FIXED_ONE in every state, so after every MixSource
\* call, whatever the step, the queue, the rewinds and the buffer switches.
C13_FractionBelowOne == 0 <= curBufferOffsetDec /\ curBufferOffsetDec < FIXED_ONE

\* A pass at a fractional step has moved the position by whole frames and left a
\* nonzero fraction.
C13_FractionCarried ==
  /\ pc = "mixLoop" /\ mixed > 0
  /\ resampleStep > FIXED_ONE
  /\ curBufferOffsetDec > 0
  /\ curBufferOffset > 0

\* The frames of the current decode call that were read from buffer id.
FramesOf(id) == {k \in 1 .. Len(frames) : frames[k][1] = id}

\* C14: the frames decoded from a non-looping buffer with playable window
\* [PlayBegin, PlayBegin+PlayLength) are payload frames of that window, in
\* ascending order, and the first frame decoded from a buffer (also from a buffer
\* just promoted to the head) is the payload frame at index PlayBegin, for every
\* PlayBegin >= 0.
C14_PlayWindowFrames ==
  \A id \in Submitted :
    LET b == notes[id].submittedAs
    IN b.LoopCount = 0 =>
         /\ \A k \in FramesOf(id) :
              b.PlayBegin <= frames[k][2] /\ frames[k][2] < b.PlayBegin + b.PlayLength
         /\ \A k \in FramesOf(id) :
              (k + 1) \in FramesOf(id) => frames[k + 1][2] = frames[k][2] + 1
         /\ (notes[id].decodes = 1 /\ FramesOf(id) # {}) =>
              \E k \in FramesOf(id) :
                /\ frames[k][2] = b.PlayBegin
                /\ \A j \in FramesOf(id) : k <= j

\* Frames were decoded from a non-looping buffer whose play window starts after
\* the first payload frame.
C14_OffsetWindowDecoded ==
  \E id \in Submitted :
    /\ notes[id].submittedAs.LoopCount = 0
    /\ notes[id].submittedAs.PlayBegin > 0
    /\ FramesOf(id) # {}

\* Submix m is mixed by this step.
MixedNow(m) == pc = "submixes" /\ consumed[m] = <<>> /\ consumed'[m] # <<>>

\* C15: every time a submix voice is mixed its whole input accumulator is zero
\* when the mix returns, also when the voice has no sends; a voice without sends
\* writes no destination: the output buffer and the accumulators of the other
\* submixes are as before.
C15_InputZeroedAfterMix ==
  [][\A m \in Submixes :
       MixedNow(m) =>
         /\ inputCache'[m] = ZeroBlock(OutputSamples * OutChannels)
         /\ Len(sends[m]) = 0 =>
              /\ output' = output
              /\ \A x \in Submixes \ {m} : inputCache'[x] = inputCache[x]]_vars

\* A submix without sends was mixed while its accumulator held nonzero input.
C15_NoSendsMixed ==
  \E m \in Submixes :
    /\ Len(sends[m]) = 0
    /\ consumed[m] # <<>> /\ \E k \in DOMAIN consumed[m] : consumed[m][k] # 0
    /\ inputCache[m] = ZeroBlock(OutputSamples * OutChannels)

\* MixSource has left its loop and is about to distribute.
Distributing == pc = "mixLoop" /\ ~(mixed < OutputSamples /\ bufferList # <<>>)

\* C16: the mixing path produces a fixed-size block.  mixed never exceeds
\* outputSamples; a pass that ends with the queue not empty produces all the
\* frames the block still lacks; and when MixSource leaves its loop with the
\* queue not empty it has produced exactly outputSamples frames, whatever the
\* step, the starting fraction, the buffer switches and the loop rewinds.
C16_FixedSizeBlock ==
  /\ mixed <= OutputSamples
  /\ (Resampling /\ bufferList # <<>>) => ToResample = OutputSamples - mixed
  /\ (Distributing /\ bufferList # <<>>) => mixed = OutputSamples

\* A full block was produced at a fractional step in a call that rewound a loop
\* or finalized a buffer, and the queue is not empty.
C16_FullBlockAcrossSwitch ==
  /\ Distributing /\ bufferList # <<>>
  /\ mixed = OutputSamples
  /\ resampleStep # FIXED_ONE
  /\ \E k \in 1 .. Len(trace) : trace[k].ev \in {"OnLoopEnd", "OnBufferEnd"}


(***************************************************************************)
(* C17: every engine update completes.                                     *)
(***************************************************************************)
\* The DecodeBuffers loop is about to run one more iteration (line 93).
DecodeLoopRuns == pc = "decode" /\ decoded < toDecode /\ buffer # NoBuffer

\* What an iteration of the DecodeBuffers loop uses up: a frame of the request,
\* a queued buffer, or one of a finite number of loops of the head buffer.
DecodeProgress ==
  \/ decoded' > decoded
  \/ Len(bufferList') < Len(bufferList)
  \/ heap'[buffer].LoopCount < heap[buffer].LoopCount

\* What a pass of the MixSource loop uses up: a frame of the block, or the queue.
MixProgress == mixed' > mixed \/ bufferList' = <<>>

\* C17: the loops of an engine update terminate for every queue content: each
\* iteration of the DecodeBuffers loop decodes a frame, finalizes a buffer or uses
\* up one of finitely many loops, and each pass of the MixSource loop adds a frame
\* to the block or finds the queue empty, so neither loop can run forever.
C17_UpdateCompletes ==
  [][/\ DecodeLoopRuns => DecodeProgress
     /\ (Resampling /\ pc' = "mixLoop") => MixProgress]_vars

\* The head buffer loops forever and the position is at the end of the iteration,
\* with frames of the request still to decode.
C17_InfiniteLoopAtEnd ==
  /\ DecodeLoopRuns
  /\ heap[buffer].LoopCount = FAUDIO_LOOP_INFINITE
  /\ curBufferOffset = IterationEnd(heap[buffer])
  /\ heap[buffer].LoopBegin = IterationEnd(heap[buffer])

(***************************************************************************)
(* C18: a decoder call of the codec fills the whole request.               *)
(***************************************************************************)
\* A decoder call has returned.
Returned == ffCall.pc = "idle" /\ ffCall.calls > 0

\* Frame k of the decodeCache of the call holds frame f of the decoded stream.
HoldsFrame(k, f) ==
  \A c \in 0 .. nChannels - 1 : ffCall.decodeCache[k * nChannels + c] = StreamSample(f, c)

\* Frame k of the decodeCache of the call holds silence.
HoldsZero(k) == \A c \in 0 .. nChannels - 1 : ffCall.decodeCache[k * nChannels + c] = 0

\* C18: when a decoder call returns, the `samples` frames of its decodeCache are
\* consecutive frames of the decoded stream followed by zeros, the zeros standing
\* only for frames the codec did not deliver: every requested frame is written
\* and none is left undefined.
C18_FullyPopulated ==
  Returned =>
    \E n \in 0 .. ffCall.samples, first \in 0 .. CumulativeFrames(PacketCount) :
      /\ \A k \in 0 .. n - 1 : HoldsFrame(k, first + k)
      /\ \A k \in n .. ffCall.samples - 1 : HoldsZero(k)
      /\ n < ffCall.samples => (ffCall.drained \/ ffCall.failed)

\* A call that had to reseek returned after the codec reported an error.
C18_ReseekWithCodecError == Returned /\ ffCall.reseek /\ ffCall.failed

(***************************************************************************)
(* C19: the play position stays at or before the end of the iteration.     *)
(***************************************************************************)
\* Source frames the resampled block uses up (lines 366-374).
ConsumedFrames == U64(curBufferOffsetDec + ToResample * resampleStep) \div FIXED_ONE

\* C19: at every decoder invocation the play position is at or before the end
\* of the current iteration, so end - curBufferOffset does not wrap and the span
\* decoded ends at or before that end.
C19_PositionBeforeEnd ==
  DecodeLoopRuns =>
    /\ curBufferOffset <= IterationEnd(heap[buffer])
    /\ curBufferOffset + EndRead <= IterationEnd(heap[buffer])

\* DecodeBuffers returned with a buffer end or loop end that fell inside the
\* lookahead padding: more frames were decoded before it than the block uses up.
C19_EndInsidePadding ==
  Resampling /\ bufferList # <<>> /\ resetOffset > ConsumedFrames

(***************************************************************************)
(* C20: the interpolating resampler reads frames the decode call wrote.    *)
(***************************************************************************)
\* MixSource is about to call FAudio_INTERNAL_ResamplePCM (lines 361-364).
Interpolating == Resampling /\ resampleStep # FIXED_ONE

\* The decode cache frame that output frame i of the pass is interpolated from.
ReadFrame(i) == ResamplePhase(i, 0, resampleOffset % FIXED_ONE)[1]

\* Frame f of the decode cache was written by the current DecodeBuffers call.
Written(f) == \A c \in 0 .. nChannels - 1 : CacheAt(f * nChannels + c) # Stale

\* C20: for each of the toResample output frames of a pass, the frame the
\* interpolating resampler reads and its next-frame neighbour lie below the
\* requested count plus the lookahead padding and were written by the
\* DecodeBuffers call that precedes the pass.
C20_ReadsWrittenFrames ==
  Interpolating =>
    \A i \in 0 .. ToResample - 1 :
      /\ ReadFrame(i) + 1 < toDecode
      /\ Written(ReadFrame(i))
      /\ Written(ReadFrame(i) + 1)

\* A stereo pass that interpolates after the queue ran empty in the decode call.
C20_StereoStarvedPass ==
  Interpolating /\ nChannels = 2 /\ bufferList = <<>> /\ ToResample > 0

(***************************************************************************)
(* C21: every submix is mixed once in every active update.                 *)
(***************************************************************************)
\* The stage loop of the update has run out (line 574).
StageLoopDone == pc = "submixes" /\ MixesLeft = {}

\* The entries of the log of the update at which submix m was mixed.
MixesOf(m) == {k \in At("MixSubmix") : trace[k].v = m}

\* C21: when the stage loop of an active update has run out, every registered
\* submix was mixed exactly once, the submixes in ascending order of their
\* stage, whatever the stage numbers in use.
C21_EverySubmixMixedOnce ==
  (StageLoopDone /\ Len(trace) < MaxTrace) =>
    /\ \A m \in Submixes : Cardinality(MixesOf(m)) = 1
    /\ \A j, k \in At("MixSubmix") :
         j < k => processingStage[trace[j].v] <= processingStage[trace[k].v]

\* The stage loop has run out in a scenario whose stage numbers are not
\* contiguous from 0: a submix has a stage at or above the stage count.
C21_StageGap ==
  StageLoopDone /\ \E m \in Submixes : processingStage[m] >= submixStages

(***************************************************************************)
(* C22: the notifications of a finalized buffer.                           *)
(***************************************************************************)
\* Entry k of the log is notification name for buffer id.
LogHas(k, name, id) ==
  k \in 1 .. Len(trace) /\ trace[k].ev = name /\ trace[k].v = "S" /\ trace[k].n = id

\* Buffer id was submitted with the end-of-stream flag.
Flagged(id) == notes[id].submittedAs.EOS

\* C22: in the log of an update, OnBufferEnd of a buffer is followed at once by
\* OnStreamEnd if and only if the buffer carries the end-of-stream flag and then
\* by the detach and free of the buffer, with no other notification (no
\* OnBufferStart of the next buffer) in between; a buffer is freed only after
\* these notifications; and OnStreamEnd is logged nowhere else: never after a
\* loop rewind, never for a buffer without the flag.
C22_EndNotificationOrder ==
  Len(trace) < MaxTrace =>
    /\ \A k \in At("OnBufferEnd") :
         IF Flagged(trace[k].n)
           THEN LogHas(k + 1, "OnStreamEnd", trace[k].n) /\ LogHas(k + 2, "free", trace[k].n)
           ELSE LogHas(k + 1, "free", trace[k].n)
    /\ \A k \in At("OnStreamEnd") :
         Flagged(trace[k].n) /\ LogHas(k - 1, "OnBufferEnd", trace[k].n)
    /\ \A k \in At("free") :
         callback =>
           \/ LogHas(k - 1, "OnBufferEnd", trace[k].n)
           \/ LogHas(k - 1, "OnStreamEnd", trace[k].n)

\* An update finalized a buffer flagged end-of-stream with a callback registered
\* and went on to start the next buffer of the queue.
C22_FlaggedThenNextStarted ==
  /\ callback /\ Len(trace) < MaxTrace
  /\ \E k \in At("free") :
       /\ Flagged(trace[k].n)
       /\ k + 1 \in At("OnBufferStart") /\ trace[k + 1].n # trace[k].n

(***************************************************************************)
(* C23: submix gains are applied once, before distribution.                *)
(***************************************************************************)
\* Sample ci of frame j of the input of submix m with its per-channel gain and
\* its voice gain applied.
GainedSample(m, j, ci) ==
  inputCache[m][j * OutChannels + ci] * ChannelVolume(m, ci) * Volume(m)

\* Destination sample acc after send i of m accumulated the source channels
\* from ci on into output channel co of frame j.
RECURSIVE AfterChannels(_, _, _, _, _, _)
AfterChannels(acc, m, i, j, co, ci) ==
  IF ci >= OutChannels THEN acc
  ELSE AfterChannels(
         FAudio_clamp(acc + GainedSample(m, j, ci) * SendCoefficient(m, i, co, ci),
                      -MaxVolumeLevel, MaxVolumeLevel),
         m, i, j, co, ci + 1)

\* Destination sample acc of voice d after the sends of m from i on.
RECURSIVE AfterSends(_, _, _, _, _, _)
AfterSends(acc, m, d, i, j, co) ==
  IF i > Len(sends[m]) THEN acc
  ELSE AfterSends(IF sends[m][i] = d THEN AfterChannels(acc, m, i, j, co, 0) ELSE acc,
                  m, d, i + 1, j, co)

\* C23: when a submix with sends is mixed, every sample of every other voice's
\* stream ends at the clamped accumulation, over the sends that target it and
\* over the source channels, of input * channelGain[ci] * voiceGain *
\* sendCoefficient[co][ci]: the two gains enter once per sample, however many
\* sends the submix has.
C23_GainAppliedOnce ==
  [][\A m \in Submixes :
       (MixedNow(m) /\ Len(sends[m]) > 0) =>
         \A d \in (Submixes \cup {"M"}) \ {m} :
           \A k \in DOMAIN Streams[d] :
             Streams'[d][k] =
               AfterSends(Streams[d][k], m, d, 1, k \div OutChannels, k % OutChannels)]_vars

\* A submix with a gain other than 1 and two sends was mixed with nonzero input,
\* and both destinations received it.
C23_TwoSendsMixed ==
  \E m \in Submixes :
    /\ Len(sends[m]) = 2 /\ Volume(m) * ChannelVolume(m, 0) # 1
    /\ consumed[m] # <<>> /\ \E k \in DOMAIN consumed[m] : consumed[m][k] # 0
    /\ \A i \in 1 .. 2 : \E k \in DOMAIN given[sends[m][i]] : given[sends[m][i]][k] # 0

(***************************************************************************)
(* C24: the frame count DecodeBuffers reports when the queue runs empty.   *)
(***************************************************************************)
\* DecodeBuffers returns after the queue ran empty inside the call.
QueueRanEmpty == Resampling /\ toDecode > 0 /\ bufferList = <<>>

\* The frames the caller asked for, before the padding was added (line 88).
Requested == toDecode - EXTRA_DECODE_PADDING

\* C24: when the queue runs empty inside DecodeBuffers, the count handed back
\* through *toDecode is not larger than the caller's request and not smaller
\* than the real frames decoded (up to the request): the padding subtraction
\* does not wrap and no real frame is dropped.
C24_ReportedCount ==
  QueueRanEmpty =>
    /\ DecodedCount <= Requested
    /\ DecodedCount >= FAudio_min(decoded, Requested)

\* The queue ran empty with fewer real frames decoded than the padding.
C24_FewerThanPadding == QueueRanEmpty /\ decoded < EXTRA_DECODE_PADDING

(***************************************************************************)
(* C25: the interpolation phase against the fractional play position.      *)
(***************************************************************************)
\* MixSource is about to size a decode request for an interpolating pass
\* (lines 331-336, step other than 1.0).
SizingInterpolatingPass ==
  /\ pc = "mixLoop" /\ mixed < OutputSamples /\ bufferList # <<>>
  /\ resampleStep # FIXED_ONE

\* The phase FAudio_INTERNAL_ResamplePCM starts from (line 214).
Phase == resampleOffset % FIXED_ONE

\* C25: whenever a decode request is sized for an interpolating resample
\* pass, the phase the resampler will start from equals the fractional play
\* position curBufferOffsetDec the request is sized with.
C25_PhaseIsPlayFraction ==
  SizingInterpolatingPass => Phase = curBufferOffsetDec

\* An interpolating pass is sized at the head of a buffer, with the play
\* fraction at zero, in an update after the first of the voice.
C25_SizedAfterReset ==
  SizingInterpolatingPass /\ curBufferOffsetDec = 0 /\ resampleOffset # 0

(***************************************************************************)
(* C26: a submix whose senders are mixed after it.                         *)
(***************************************************************************)
\* The iterations of the stage loop that mix submix m.
WalkOf(m) == {k \in DOMAIN StageWalk :
                StageMatches(StageWalk[k]) /\ SubmixList[StageWalk[k][2]] = m}

\* Submix m is fed by submixes only, and each of them has a stage at or above
\* the stage of m and is mixed after m in every update.
LateFed(m) ==
  /\ SubmixSendersOf(m) # {}
  /\ \A i \in 1 .. Len(sends.src) : sends.src[i] # m
  /\ WalkOf(m) # {}
  /\ \A v \in SubmixSendersOf(m) :
       /\ processingStage[v] >= processingStage[m]
       /\ WalkOf(v) # {}
       /\ \A j \in WalkOf(m), k \in WalkOf(v) : j < k

\* What mixing submix m leaves in the streams of its send targets.
SentBy(m) == SubmixSends(Streams, m, 1, ApplyVolume(m, PlatformResample(inputCache[m])))

\* C26: with reversed stage tags (submix m mixed before the submixes that
\* send to it), what the senders distribute into m during a block is in the
\* input accumulator of m when the update ends, stays there untouched until m
\* is mixed in the next update, is then distributed to the sends of m and
\* zeroed, and m is mixed once in that update: nothing is lost, nothing is
\* counted twice.
C26_CarriedToNextBlock ==
  /\ [](\A m \in Submixes :
          (LateFed(m) /\ StageLoopDone /\ Len(trace) < MaxTrace) =>
            /\ inputCache[m] = given[m]
            /\ Cardinality(MixesOf(m)) = 1)
  /\ [][\A m \in Submixes :
          LateFed(m) =>
            /\ ((consumed[m] = <<>> \/ StageLoopDone \/ pc # "submixes") /\ ~MixedNow(m))
                 => inputCache'[m] = inputCache[m]
            /\ MixedNow(m) =>
                 /\ consumed'[m] = inputCache[m]
                 /\ inputCache'[m] = ZeroBlock(OutputSamples * OutChannels)
                 /\ \A i \in 1 .. Len(sends[m]) :
                      Streams'[sends[m][i]] = SentBy(m)[sends[m][i]]]_vars

\* B, at a stage below its only sender A, has been mixed in an update holding
\* the nonzero block A sent it in the update before, and A has sent it the
\* next nonzero block after that.
C26_ReversedChainMixed ==
  /\ LateFed("B") /\ processingStage["A"] > processingStage["B"]
  /\ consumed["B"] # <<>> /\ \E k \in DOMAIN consumed["B"] : consumed["B"][k] # 0
  /\ StageLoopDone
  /\ \E k \in DOMAIN inputCache["B"] : inputCache["B"][k] # 0

(***************************************************************************)
(* C27: the tracked decoded position after a decode call.                  *)
(***************************************************************************)
\* FAudio_INTERNAL_DecodeFFMPEG has returned and nothing has run since.
DecodeReturned == ffCall.pc = "idle" /\ ffCall.calls > 0 /\ ~ffCall.reset

\* C27: inside the copy loop of a decode call the tracked position decOffset
\* equals the play position curBufferOffset the call was entered with, and
\* after the call it equals that position plus the requested sample count,
\* whichever path the call took (positions equal, in-cache rewind, reseek).
C27_TrackedPosition ==
  /\ ffCall.pc \in {"loop", "end"} => ffmpeg.decOffset = ffCall.curBufferOffset
  /\ DecodeReturned => ffmpeg.decOffset = U32(ffCall.curBufferOffset + ffCall.samples)

\* A call has returned that found the play position behind the tracked
\* position and rewound inside the convert cache.
C27_AfterRewind ==
  DecodeReturned /\ ffCall.curBufferOffset < ffCall.decOffset /\ ~ffCall.reseek

(***************************************************************************)
(* C28: the first decode call after a reset.                               *)
(***************************************************************************)
\* A decode call at play position 0, the first after FAudio_FFMPEG_reset, has
\* returned, and the codec has reported no error so far.
ReturnedAfterReset ==
  Returned /\ ffCall.afterReset /\ ffCall.curBufferOffset = 0 /\ ~ffCall.faulted

\* C28: the first decode call at play position 0 after a reset returns the
\* stream from its first frame on: frame k of the decodeCache is frame k of the
\* decoded stream, no frame left in the convert cache from before the reset.
C28_StartsAtFirstFrame ==
  ReturnedAfterReset =>
    \A k \in 0 .. ffCall.samples - 1 :
      k < CumulativeFrames(PacketCount) => HoldsFrame(k, k)

\* The first call after a reset returned a later frame of the stream as its
\* first frame.
C28_StaleFrameReturned ==
  ReturnedAfterReset /\ \E f \in 1 .. CumulativeFrames(PacketCount) - 1 : HoldsFrame(0, f)

(***************************************************************************)
(* C29: the mono and the stereo MSADPCM block decoder on the same channel. *)
(***************************************************************************)
\* Both decoders have decoded their block.
BothDecoded == adpcm.mono # <<>> /\ adpcm.stereo # <<>>

\* The samples of channel c of an interleaved stereo block.
ChannelOf(block, c) == [k \in 1 .. Len(block) \div 2 |-> block[2 * (k - 1) + c + 1]]

\* C29: for the same predictor, delta, seed samples and nibble sequence, the
\* channel of the decoded stereo block equals the decoded mono block, the seed
\* samples first, the older seed sample2 before sample1, in both.
C29_ChannelEqualsMono ==
  BothDecoded =>
    /\ ChannelOf(adpcm.stereo, adpcm.side) = adpcm.mono
    /\ adpcm.mono[1] = adpcm.input.sample2
    /\ adpcm.mono[2] = adpcm.input.sample1

\* Both decoders have decoded a block whose seed samples differ.
C29_DistinctSeeds == BothDecoded /\ adpcm.input.sample1 # adpcm.input.sample2


=============================================================================
